---- MODULE Spec2Model ----
(***************************************************************************)
(* Reminder scheduling engine of Just_Do_It (apps/server).                 *)
(*                                                                         *)
(* The fallback-capable ReminderScheduler is modelled as a state machine:  *)
(* its fields, the timers armed in the Node runtime, the delayed jobs held *)
(* by the BullMQ queue, and every asynchronous call in flight with the     *)
(* await point it is suspended at.  Each await of the source is one        *)
(* interleaving point; the code between two awaits is one atomic step.     *)
(*                                                                         *)
(* Around the engine: calculate_delay_ms on JavaScript numbers (SpecDelay),*)
(* the ReminderDispatcher (SpecDispatcher), the LINE webhook handler       *)
(* (SpecWebhook), and the engine in forced in-memory mode with the runtime *)
(* running its due timers (SpecInMemory); validate_line_signature          *)
(* (SpecSignature), build_reminder_request (SpecRequestBuild), the         *)
(* TaskRepository (SpecRepository), the ngrok tunnel (SpecNgrok), the      *)
(* process bootstrap with its signal handlers (SpecBootstrap), and the     *)
(* BullMQ-only ReminderScheduler of reminders/reminder_scheduler.ts run    *)
(* beside the fallback-capable one on one backend (SpecSchedulers).        *)
(***************************************************************************)
EXTENDS Integers, Sequences, FiniteSets, TLC

\* ---------------------------------------------------------------- bounds
Tasks == {"T1", "T2"}

NumCallers == 2

MaxReqs == 2

MaxTime == 1

MaxTrail == 4

MaxStamp == 8

MaxTitle == 4

MaxEvents == 3
\* termination signals delivered to the process
MaxSignals == 2
\* webhook events the running server is seen to process
MaxServed == 2
\* calls of a tunnel handle's disconnect()
MaxHandleCalls == 2
\* largest reminder_offset_minutes tried
MaxOffset == 2
\* longest x-line-signature value tried, in UTF-16 code units
MaxSignatureLen == 3

Callers == 1..NumCallers

Times == 0..MaxTime

\* ----------------------------------------------------------------- state
VARIABLES
    dependencies,    \* constructor argument: the two flags the engine reads
    engine,          \* "constructing" | "constructed" | "constructor_threw"
    scheduler_mode,  \* "bullmq" | "in_memory"
    queue,           \* "undefined" | "open" | "closed"
    worker,          \* "undefined" | "open" | "closed"
    initialized,     \* BOOLEAN
    active_timers,   \* Map<task_id, timer handle>; 0 = no entry
    timers,          \* timers armed in the runtime: [handle, task_id, due]
    jobs,            \* jobs held by the queue backend, keyed by jobId
    requests,        \* number of ReminderRequest objects submitted so far
    now,             \* wall clock
    calls,           \* per caller: the asynchronous call in flight
    dispatched,      \* per request: how often the dispatcher was invoked
    cancelled,       \* requests whose timer or job cancel_reminder removed
    event,           \* what the last step returned or fired
    serialized,      \* TRUE: the caller never overlaps two calls
    trail,           \* per task: results of the last non-overlapping calls
    delay_calc,      \* one evaluation of calculate_delay_ms
    dispatcher,      \* a ReminderDispatcher and its dispatch in flight
    webhook,         \* one request in line_webhook_request_handler
    signature,       \* one evaluation of validate_line_signature
    bootstrap,       \* the bootstrap_server process and its signal handlers
    request_build,   \* one call of build_reminder_request
    repository,      \* a TaskRepository and its call in flight
    ngrok,           \* an ngrok module and the tunnel handle built on it
    schedulers       \* the two ReminderScheduler classes side by side

\* the scheduling engine's part of the state
engine_vars == <<dependencies, engine, scheduler_mode, queue, worker,
                 initialized, active_timers, timers, jobs, requests, now,
                 calls, dispatched, cancelled, event, serialized, trail>>

\* the state of the components around the engine
others == <<delay_calc, dispatcher, webhook, signature, bootstrap,
            request_build, repository, ngrok, schedulers>>

\* what a step of one component leaves alone: the engine and the rest
but_delay_calc == <<engine_vars, dispatcher, webhook, signature, bootstrap,
                    request_build, repository, ngrok,
                    schedulers>>

but_dispatcher == <<engine_vars, delay_calc, webhook, signature, bootstrap,
                    request_build, repository, ngrok,
                    schedulers>>

but_webhook == <<engine_vars, delay_calc, dispatcher, signature, bootstrap,
                 request_build, repository, ngrok,
                 schedulers>>

but_signature == <<engine_vars, delay_calc, dispatcher, webhook, bootstrap,
                   request_build, repository, ngrok,
                   schedulers>>

but_bootstrap == <<engine_vars, delay_calc, dispatcher, webhook, signature,
                   request_build, repository, ngrok,
                   schedulers>>

but_request_build == <<engine_vars, delay_calc, dispatcher, webhook,
                       signature, bootstrap, repository, ngrok,
                       schedulers>>

but_repository == <<engine_vars, delay_calc, dispatcher, webhook, signature,
                    bootstrap, request_build, ngrok,
                    schedulers>>

but_ngrok == <<engine_vars, delay_calc, dispatcher, webhook, signature,
               bootstrap, request_build, repository,
               schedulers>>

but_schedulers == <<engine_vars, delay_calc, dispatcher, webhook, signature,
                    bootstrap, request_build, repository, ngrok>>

vars == <<engine_vars, others>>

NoTask == "none"

Idle == [op |-> "none", pc |-> "idle", task_id |-> NoTask, rid |-> 0,
         reminder_time |-> [wellformed |-> FALSE, ms |-> 0],
         delay_ms |-> [nan |-> FALSE, val |-> 0]]

NoEvent == [op |-> "none", task_id |-> NoTask, ret |-> "none"]

NoJob == [rid |-> 0, due |-> 0, state |-> "none",
          reminder_time |-> [wellformed |-> FALSE, ms |-> 0]]

\* a component that is not under study
NoDelayCalc == [pc |-> "none"]

NoDispatcher == [pc |-> "none"]

NoWebhook == [pc |-> "none"]

NoSignature == [pc |-> "none"]

NoBootstrap == [pc |-> "none"]

NoRequestBuild == [pc |-> "none"]

NoRepository == [pc |-> "none"]

NoNgrok == [pc |-> "none"]

NoSchedulers == [pc |-> "none"]

\* every component around the engine but the named one is out of the study
ParkedExcept(component) ==
    /\ component # "delay_calc" => delay_calc = NoDelayCalc
    /\ component # "dispatcher" => dispatcher = NoDispatcher
    /\ component # "webhook" => webhook = NoWebhook
    /\ component # "signature" => signature = NoSignature
    /\ component # "bootstrap" => bootstrap = NoBootstrap
    /\ component # "request_build" => request_build = NoRequestBuild
    /\ component # "repository" => repository = NoRepository
    /\ component # "ngrok" => ngrok = NoNgrok
    /\ component # "schedulers" => schedulers = NoSchedulers

\* handle of the timer a request arms: one setTimeout per request
Handles == 1..MaxReqs

\* ------------------------------------------------------------- helpers
Max(a, b) == IF a >= b THEN a ELSE b

\* a JavaScript Number: an integer, or NaN
Num(n) == [nan |-> FALSE, val |-> n]

NaN == [nan |-> TRUE, val |-> 0]

\* a - b on Numbers
Minus(a, b) == IF a.nan \/ b.nan THEN NaN ELSE Num(a.val - b.val)

\* Math.max(a, b): NaN as soon as one argument is NaN
Math_max(a, b) == IF a.nan \/ b.nan THEN NaN ELSE Num(Max(a.val, b.val))

\* a reminder_time_iso string: a well-formed one denotes the instant ms, a
\* malformed one denotes nothing
Iso(n) == [wellformed |-> TRUE, ms |-> n]

Malformed == [wellformed |-> FALSE, ms |-> 0]

\* the trigger times a request may carry
ReminderTimes == {Iso(n) : n \in Times} \cup {Malformed}

\* new Date(reminder_time_iso).getTime(): NaN for an invalid date
Date_getTime(iso) == IF iso.wellformed THEN Num(iso.ms) ELSE NaN

\* a delay computation that never waits
calculate_delay_ms_immediate(reminder_time_iso, clock) == Num(0)

\* calculate_delay_ms without Math.max: the bare difference
calculate_delay_ms_unclamped(reminder_time_iso, clock) ==
    Minus(Date_getTime(reminder_time_iso), Num(clock))

\* Math.max(new Date(reminder_time_iso).getTime() - Date.now(), 0)
calculate_delay_ms(reminder_time_iso, clock) ==
    Math_max(Minus(Date_getTime(reminder_time_iso), Num(clock)), Num(0))

\* the delay the runtime or the queue waits for: a delay that is not a
\* number of at least one millisecond elapses at once
EffectiveDelay(delay) == IF delay.nan THEN 0 ELSE Max(delay.val, 0)

\* a clearTimeout that leaves the timer armed
clearTimeout_keeps_timer(armed, handle) == armed

\* clearTimeout(handle): disarms the timer if it is still armed
clearTimeout(armed, handle) == {tm \in armed : tm.handle # handle}

\* setTimeout(callback, delay): arms a timer whose callback closes over
\* the reminder request and dispatches it
setTimeout(armed, handle, reminder_request, delay, clock) ==
    armed \cup {[handle |-> handle,
                 task_id |-> reminder_request.task_id,
                 reminder_time |-> reminder_request.reminder_time,
                 due |-> clock + EffectiveDelay(delay)]}

ArmedHandles == {tm.handle : tm \in timers}

ArmedFor(t) == {tm \in timers : tm.task_id = t}

InFlight(c) == calls[c].pc # "idle"

\* a call may start on the constructed engine; callers are interchangeable,
\* so a new call takes the lowest free slot; a serialized caller waits for
\* its previous call to return
CanCall(c) ==
    /\ engine = "constructed"
    /\ calls[c].pc = "idle"
    /\ \A d \in Callers : d < c => calls[d].pc # "idle"
    /\ serialized => \A d \in Callers : calls[d].pc = "idle"

Push(seq, x) ==
    IF Len(seq) < MaxTrail THEN Append(seq, x) ELSE Append(Tail(seq), x)

NoTrail == [t \in Tasks |-> <<>>]

\* the trail of task t after one of its calls returned r
TrailAfter(t, r) ==
    IF ~serialized THEN trail
    ELSE IF r = "threw" THEN [trail EXCEPT ![t] = <<>>]
    ELSE [trail EXCEPT ![t] = Push(@, r)]

\* the trail of task t after its reminder fired
TrailFired(t) ==
    IF serialized THEN [trail EXCEPT ![t] = <<"fired">>] ELSE trail

Returned(c, op, t, r) ==
    /\ calls' = [calls EXCEPT ![c] = Idle]
    /\ event' = [op |-> op, task_id |-> t, ret |-> r]

SuspendWith(c, op, pc, t, rid, rt, delay) ==
    /\ calls' = [calls EXCEPT ![c] =
                    [op |-> op, pc |-> pc, task_id |-> t, rid |-> rid,
                     reminder_time |-> rt, delay_ms |-> delay]]
    /\ event' = NoEvent

Suspend(c, op, pc, t, rid) ==
    SuspendWith(c, op, pc, t, rid, calls[c].reminder_time, Num(0))

\* ------------------------------------------------------------------ Init
InitEngine ==
    /\ dependencies \in [enable_offline_fallback : BOOLEAN,
                         force_in_memory_mode : BOOLEAN]
    /\ engine = "constructing"
    /\ scheduler_mode =
         IF dependencies.force_in_memory_mode THEN "in_memory" ELSE "bullmq"
    /\ queue = "undefined"
    /\ worker = "undefined"
    /\ initialized = FALSE
    /\ active_timers = [t \in Tasks |-> 0]
    /\ timers = {}
    /\ jobs = [t \in Tasks |-> NoJob]
    /\ requests = 0
    /\ now = 0
    /\ calls = [c \in Callers |-> Idle]
    /\ dispatched = [h \in Handles |-> 0]
    /\ cancelled = {}
    /\ event = NoEvent
    /\ trail = NoTrail

\* the engine alone: nothing else is under study
InitCommon ==
    /\ InitEngine
    /\ ParkedExcept("engine")

Init == InitCommon /\ serialized = FALSE

InitSerialized == InitCommon /\ serialized = TRUE

\* ----------------------------------------------------------- constructor
\* the catch block of the constructor without the two resets: a queue that
\* was built before the worker failed stays in the field
constructor_catch_keeps_queue(outcome) ==
    IF dependencies.enable_offline_fallback
    THEN /\ queue' = IF outcome = "worker_throws" THEN "open" ELSE "undefined"
         /\ worker' = "undefined"
         /\ scheduler_mode' = "in_memory"
         /\ engine' = "constructed"
         /\ event' = [NoEvent EXCEPT !.op = "constructor", !.ret = "fallback"]
    ELSE /\ queue' = IF outcome = "worker_throws" THEN "open" ELSE "undefined"
         /\ engine' = "constructor_threw"
         /\ event' = [NoEvent EXCEPT !.op = "constructor", !.ret = "threw"]
         /\ UNCHANGED <<scheduler_mode, worker>>

\* the catch block of the constructor: fall back to in-memory, or rethrow
constructor_catch(outcome) ==
    IF dependencies.enable_offline_fallback
    THEN /\ queue' = "undefined"
         /\ worker' = "undefined"
         /\ scheduler_mode' = "in_memory"
         /\ engine' = "constructed"
         /\ event' = [NoEvent EXCEPT !.op = "constructor", !.ret = "fallback"]
    ELSE /\ queue' = IF outcome = "worker_throws" THEN "open" ELSE "undefined"
         /\ engine' = "constructor_threw"
         /\ event' = [NoEvent EXCEPT !.op = "constructor", !.ret = "threw"]
         /\ UNCHANGED <<scheduler_mode, worker>>

\* new Queue(...) / new Worker(...) inside try; catch falls back or rethrows
constructor ==
    /\ engine = "constructing"
    /\ \E outcome \in {"ok", "queue_throws", "worker_throws"} :
         IF scheduler_mode = "in_memory"
         THEN /\ outcome = "ok"
              /\ engine' = "constructed"
              /\ event' = [NoEvent EXCEPT !.op = "constructor", !.ret = "ok"]
              /\ UNCHANGED <<scheduler_mode, queue, worker>>
         ELSE IF outcome = "ok"
         THEN /\ queue' = "open"
              /\ worker' = "open"
              /\ engine' = "constructed"
              /\ event' = [NoEvent EXCEPT !.op = "constructor", !.ret = "ok"]
              /\ UNCHANGED scheduler_mode
         ELSE constructor_catch(outcome)
    /\ UNCHANGED <<others, dependencies, initialized, active_timers, timers,
                   jobs, requests, now, calls, dispatched, cancelled,
                   serialized, trail>>

\* ------------------------------------------------------------ initialize
\* switch_finish without `this.worker = undefined`
switch_finish_keeps_worker(c) ==
    /\ worker' = worker
    /\ queue' = "undefined"
    /\ scheduler_mode' = "in_memory"
    /\ active_timers' = [t \in Tasks |-> 0]
    /\ Suspend(c, "initialize", "after_switch", NoTask, 0)

\* switch_finish without `this.queue = undefined`
switch_finish_keeps_queue(c) ==
    /\ worker' = "undefined"
    /\ queue' = queue
    /\ scheduler_mode' = "in_memory"
    /\ active_timers' = [t \in Tasks |-> 0]
    /\ Suspend(c, "initialize", "after_switch", NoTask, 0)

\* the synchronous end of switch_to_in_memory_mode, after its last await:
\* both handles dropped, mode switched, timer table cleared
switch_finish(c) ==
    /\ worker' = "undefined"
    /\ queue' = "undefined"
    /\ scheduler_mode' = "in_memory"
    /\ active_timers' = [t \in Tasks |-> 0]
    /\ Suspend(c, "initialize", "after_switch", NoTask, 0)

\* switch_to_in_memory_mode from `if (this.queue)` on; w is the worker field
\* as the preceding code left it
switch_queue_step(c, w) ==
    IF queue # "undefined"
    THEN /\ Suspend(c, "initialize", "switch_queue_close", NoTask, 0)
         /\ worker' = w
         /\ UNCHANGED <<queue, scheduler_mode, active_timers>>
    ELSE switch_finish(c)

\* switch_to_in_memory_mode up to its first await
switch_to_in_memory_mode(c) ==
    IF worker # "undefined"
    THEN /\ Suspend(c, "initialize", "switch_worker_close", NoTask, 0)
         /\ UNCHANGED <<worker, queue, scheduler_mode, active_timers>>
    ELSE switch_queue_step(c, worker)

\* initialize() without the `if (this.initialized)` early return
initialize_call_unguarded(c) ==
    /\ CanCall(c)
    /\ IF scheduler_mode = "in_memory"
       THEN /\ initialized' = TRUE
            /\ Returned(c, "initialize", NoTask, "ok")
       ELSE /\ Suspend(c, "initialize", "wait_ready", NoTask, 0)
            /\ UNCHANGED initialized
    /\ trail' = NoTrail
    /\ UNCHANGED <<others, dependencies, engine, scheduler_mode, queue, worker,
                   active_timers, timers, jobs, requests, now, dispatched,
                   cancelled, serialized>>

\* initialize() up to its first await
initialize_call(c) ==
    /\ CanCall(c)
    /\ IF initialized
       THEN /\ Returned(c, "initialize", NoTask, "already_initialized")
            /\ UNCHANGED initialized
       ELSE IF scheduler_mode = "in_memory"
       THEN /\ initialized' = TRUE
            /\ Returned(c, "initialize", NoTask, "ok")
       ELSE /\ Suspend(c, "initialize", "wait_ready", NoTask, 0)
            /\ UNCHANGED initialized
    /\ trail' = NoTrail
    /\ UNCHANGED <<others, dependencies, engine, scheduler_mode, queue, worker,
                   active_timers, timers, jobs, requests, now, dispatched,
                   cancelled, serialized>>

\* the catch block of initialize() falling back whatever the flag says
initialize_catch_ignores_flag(c) ==
    /\ switch_to_in_memory_mode(c)
    /\ UNCHANGED initialized

\* the catch block of initialize(): fall back when enabled, else rethrow
initialize_catch(c) ==
    IF dependencies.enable_offline_fallback
    THEN /\ switch_to_in_memory_mode(c)
         /\ UNCHANGED initialized
    ELSE /\ Returned(c, "initialize", NoTask, "threw")
         /\ UNCHANGED <<initialized, worker, queue, scheduler_mode,
                        active_timers>>

\* await Promise.all(readiness_promises) settles
initialize_ready(c) ==
    /\ calls[c].op = "initialize"
    /\ calls[c].pc = "wait_ready"
    /\ \E ready \in BOOLEAN :
         IF ready /\ queue = "open" /\ worker = "open"
         THEN /\ initialized' = TRUE
              /\ Returned(c, "initialize", NoTask, "ok")
              /\ UNCHANGED <<worker, queue, scheduler_mode, active_timers>>
         ELSE initialize_catch(c)
    /\ UNCHANGED <<others, dependencies, engine, timers, jobs, requests, now,
                   dispatched, cancelled, serialized, trail>>

\* await this.worker.close() settles (a failure is caught and logged)
switch_worker_closed(c) ==
    /\ calls[c].op = "initialize"
    /\ calls[c].pc = "switch_worker_close"
    /\ \E ok \in BOOLEAN :
         switch_queue_step(c, IF ok /\ worker = "open" THEN "closed"
                              ELSE worker)
    /\ UNCHANGED <<others, dependencies, engine, initialized, timers, jobs,
                   requests, now, dispatched, cancelled, serialized, trail>>

\* await this.queue.close() settles (a failure is caught and logged)
switch_queue_closed(c) ==
    /\ calls[c].op = "initialize"
    /\ calls[c].pc = "switch_queue_close"
    /\ switch_finish(c)
    /\ UNCHANGED <<others, dependencies, engine, initialized, timers, jobs,
                   requests, now, dispatched, cancelled, serialized, trail>>

\* initialize() resumes after `await this.switch_to_in_memory_mode(...)`
initialize_after_switch(c) ==
    /\ calls[c].op = "initialize"
    /\ calls[c].pc = "after_switch"
    /\ initialized' = TRUE
    /\ Returned(c, "initialize", NoTask, "fallback")
    /\ UNCHANGED <<others, dependencies, engine, scheduler_mode, queue, worker,
                   active_timers, timers, jobs, requests, now, dispatched,
                   cancelled, serialized, trail>>

\* ------------------------------------------- cancel_reminder / schedule
\* a cancel that clears the whole table instead of deleting one key
cancel_in_memory_clears_table(t) ==
    /\ timers' = IF active_timers[t] # 0
                 THEN clearTimeout(timers, active_timers[t]) ELSE timers
    /\ active_timers' = [u \in Tasks |-> 0]
    /\ cancelled' = IF active_timers[t] # 0
                    THEN cancelled \cup {active_timers[t]} ELSE cancelled

\* cancel_in_memory without `this.active_timers.delete(task_id)`
cancel_in_memory_keeps_entry(t) ==
    /\ timers' = IF active_timers[t] # 0
                 THEN clearTimeout(timers, active_timers[t]) ELSE timers
    /\ active_timers' = active_timers
    /\ cancelled' = IF active_timers[t] # 0
                    THEN cancelled \cup {active_timers[t]} ELSE cancelled

\* in-memory branch of cancel_reminder: runs to completion without an await
cancel_in_memory(t) ==
    /\ timers' = IF active_timers[t] # 0
                 THEN clearTimeout(timers, active_timers[t]) ELSE timers
    /\ active_timers' = [active_timers EXCEPT ![t] = 0]
    /\ cancelled' = IF active_timers[t] # 0
                    THEN cancelled \cup {active_timers[t]} ELSE cancelled

\* cancel_reminder(task_id) up to its first await
cancel_reminder_call(c, t) ==
    /\ CanCall(c)
    /\ IF scheduler_mode = "in_memory"
       THEN /\ cancel_in_memory(t)
            /\ LET r == IF active_timers[t] # 0 THEN "true" ELSE "false"
               IN /\ Returned(c, "cancel_reminder", t, r)
                  /\ trail' = TrailAfter(t, r)
       ELSE IF queue = "undefined"
       THEN /\ Returned(c, "cancel_reminder", t, "threw")
            /\ trail' = TrailAfter(t, "threw")
            /\ UNCHANGED <<timers, active_timers, cancelled>>
       ELSE /\ Suspend(c, "cancel_reminder", "getJob", t, 0)
            /\ UNCHANGED <<timers, active_timers, cancelled, trail>>
    /\ UNCHANGED <<others, dependencies, engine, scheduler_mode, queue, worker,
                   initialized, jobs, requests, now, dispatched, serialized>>

\* schedule_reminder(request) up to its first await: the cancel it starts with
schedule_reminder_call(c, t, reminder_time) ==
    /\ CanCall(c)
    /\ requests < MaxReqs
    /\ requests' = requests + 1
    /\ LET rid == requests + 1 IN
       IF scheduler_mode = "in_memory"
       THEN /\ cancel_in_memory(t)
            /\ SuspendWith(c, "schedule_reminder", "after_cancel", t, rid,
                           reminder_time, Num(0))
            /\ UNCHANGED trail
       ELSE IF queue = "undefined"
       THEN /\ Returned(c, "schedule_reminder", t, "threw")
            /\ trail' = TrailAfter(t, "threw")
            /\ UNCHANGED <<timers, active_timers, cancelled>>
       ELSE /\ SuspendWith(c, "schedule_reminder", "getJob", t, rid,
                           reminder_time, Num(0))
            /\ UNCHANGED <<timers, active_timers, cancelled, trail>>
    /\ UNCHANGED <<others, dependencies, engine, scheduler_mode, queue, worker,
                   initialized, jobs, now, dispatched, serialized>>

\* await this.queue.getJob(task_id) settles
getJob_done(c) ==
    /\ calls[c].pc = "getJob"
    /\ LET t == calls[c].task_id
           op == calls[c].op
       IN \E ok \in BOOLEAN :
            IF ~ok \/ queue # "open"
            THEN /\ Returned(c, op, t, "threw")
                 /\ trail' = TrailAfter(t, "threw")
            ELSE IF jobs[t] = NoJob
            THEN IF op = "cancel_reminder"
                 THEN /\ Returned(c, op, t, "false")
                      /\ trail' = TrailAfter(t, "false")
                 ELSE /\ Suspend(c, op, "after_cancel", t, calls[c].rid)
                      /\ UNCHANGED trail
            ELSE /\ Suspend(c, op, "remove", t, calls[c].rid)
                 /\ UNCHANGED trail
    /\ UNCHANGED <<others, dependencies, engine, scheduler_mode, queue, worker,
                   initialized, active_timers, timers, jobs, requests, now,
                   dispatched, cancelled, serialized>>

\* a removal that is acknowledged but leaves the job in the queue
job_remove_keeps_job(t) == jobs

\* job.remove(): the queue no longer holds a job under this jobId
job_remove(t) == [jobs EXCEPT ![t] = NoJob]

\* await job.remove() settles; a job that is being processed is locked and
\* its removal is rejected
remove_done(c) ==
    /\ calls[c].pc = "remove"
    /\ LET t == calls[c].task_id
           op == calls[c].op
       IN \E ok \in BOOLEAN :
            IF ~ok \/ queue # "open" \/ jobs[t].state = "active"
            THEN /\ Returned(c, op, t, "threw")
                 /\ trail' = TrailAfter(t, "threw")
                 /\ UNCHANGED <<jobs, cancelled>>
            ELSE /\ jobs' = job_remove(t)
                 /\ cancelled' = IF jobs[t] # NoJob
                                 THEN cancelled \cup {jobs[t].rid}
                                 ELSE cancelled
                 /\ IF op = "cancel_reminder"
                    THEN /\ Returned(c, op, t, "true")
                         /\ trail' = TrailAfter(t, "true")
                    ELSE /\ Suspend(c, op, "after_cancel", t, calls[c].rid)
                         /\ UNCHANGED trail
    /\ UNCHANGED <<others, dependencies, engine, scheduler_mode, queue, worker,
                   initialized, active_timers, timers, requests, now,
                   dispatched, serialized>>

\* schedule_reminder resumes after `await this.cancel_reminder(...)`
schedule_after_cancel(c) ==
    /\ calls[c].op = "schedule_reminder"
    /\ calls[c].pc = "after_cancel"
    /\ LET t == calls[c].task_id
           rid == calls[c].rid
           delay_ms == calculate_delay_ms(calls[c].reminder_time, now)
       IN IF scheduler_mode = "in_memory"
          THEN /\ timers' =
                    setTimeout(timers, rid,
                               [task_id |-> t,
                                reminder_time |-> calls[c].reminder_time],
                               delay_ms, now)
               /\ active_timers' = [active_timers EXCEPT ![t] = rid]
               /\ Returned(c, "schedule_reminder", t, "ok")
               /\ trail' = TrailAfter(t, "ok")
          ELSE IF queue # "undefined"
          THEN /\ SuspendWith(c, "schedule_reminder", "queue_add", t, rid,
                              calls[c].reminder_time, delay_ms)
               /\ UNCHANGED <<timers, active_timers, trail>>
          ELSE /\ Returned(c, "schedule_reminder", t, "threw")
               /\ trail' = TrailAfter(t, "threw")
               /\ UNCHANGED <<timers, active_timers>>
    /\ UNCHANGED <<others, dependencies, engine, scheduler_mode, queue, worker,
                   initialized, jobs, requests, now, dispatched, cancelled,
                   serialized>>

\* a queue.add whose failure makes the engine fall back to in-memory mode
\* instead of rethrowing
queue_add_done_falls_back(c) ==
    /\ calls[c].pc = "queue_add"
    /\ LET t == calls[c].task_id
           rid == calls[c].rid
       IN \E ok \in BOOLEAN :
            IF ~ok \/ queue # "open"
            THEN /\ Returned(c, "schedule_reminder", t, "ok")
                 /\ trail' = TrailAfter(t, "ok")
                 /\ scheduler_mode' = "in_memory"
                 /\ UNCHANGED jobs
            ELSE /\ jobs' = IF jobs[t] = NoJob
                            THEN [jobs EXCEPT ![t] =
                                    [rid |-> rid,
                                     due |-> now +
                                       EffectiveDelay(calls[c].delay_ms),
                                     state |-> "delayed",
                                     reminder_time |->
                                       calls[c].reminder_time]]
                            ELSE jobs
                 /\ Returned(c, "schedule_reminder", t, "ok")
                 /\ trail' = TrailAfter(t, "ok")
                 /\ UNCHANGED scheduler_mode
    /\ UNCHANGED <<others, dependencies, engine, queue, worker, initialized,
                   active_timers, timers, requests, now, dispatched,
                   cancelled, serialized>>

\* await this.queue.add(name, data, {jobId, delay, removeOnComplete,
\* removeOnFail}) settles; an add whose jobId already exists adds nothing
queue_add_done(c) ==
    /\ calls[c].pc = "queue_add"
    /\ LET t == calls[c].task_id
           rid == calls[c].rid
       IN \E ok \in BOOLEAN :
            IF ~ok \/ queue # "open"
            THEN /\ Returned(c, "schedule_reminder", t, "threw")
                 /\ trail' = TrailAfter(t, "threw")
                 /\ UNCHANGED jobs
            ELSE /\ jobs' = IF jobs[t] = NoJob
                            THEN [jobs EXCEPT ![t] =
                                    [rid |-> rid,
                                     due |-> now +
                                       EffectiveDelay(calls[c].delay_ms),
                                     state |-> "delayed",
                                     reminder_time |->
                                       calls[c].reminder_time]]
                            ELSE jobs
                 /\ Returned(c, "schedule_reminder", t, "ok")
                 /\ trail' = TrailAfter(t, "ok")
    /\ UNCHANGED <<others, dependencies, engine, scheduler_mode, queue, worker,
                   initialized, active_timers, timers, requests, now,
                   dispatched, cancelled, serialized>>

\* -------------------------------------------------------------- shutdown
\* the in-memory branch of shutdown() also resetting the mode to its
\* constructor default
shutdown_in_memory_resets_mode(c) ==
    /\ timers' = {tm \in timers :
                    \A t \in Tasks : active_timers[t] # tm.handle}
    /\ active_timers' = [t \in Tasks |-> 0]
    /\ initialized' = FALSE
    /\ scheduler_mode' = "bullmq"
    /\ Returned(c, "shutdown", NoTask, "ok")

\* the in-memory branch of shutdown(): clearTimeout on every handle of the
\* table, then clear the table
shutdown_in_memory(c) ==
    /\ timers' = {tm \in timers :
                    \A t \in Tasks : active_timers[t] # tm.handle}
    /\ active_timers' = [t \in Tasks |-> 0]
    /\ initialized' = FALSE
    /\ scheduler_mode' = scheduler_mode
    /\ Returned(c, "shutdown", NoTask, "ok")

\* shutdown() up to its first await
shutdown_call(c) ==
    /\ CanCall(c)
    /\ IF scheduler_mode = "in_memory"
       THEN shutdown_in_memory(c)
       ELSE /\ Suspend(c, "shutdown", "shutdown_close", NoTask, 0)
            /\ UNCHANGED <<timers, active_timers, initialized,
                           scheduler_mode>>
    /\ trail' = NoTrail
    /\ UNCHANGED <<others, dependencies, engine, queue, worker, jobs,
                   requests, now, dispatched, cancelled, serialized>>

\* await Promise.all([worker.close(), queue.close()]) settles
shutdown_closed(c) ==
    /\ calls[c].op = "shutdown"
    /\ calls[c].pc = "shutdown_close"
    /\ \E ok \in BOOLEAN :
         IF ok
         THEN /\ worker' = IF worker = "open" THEN "closed" ELSE worker
              /\ queue' = IF queue = "open" THEN "closed" ELSE queue
              /\ initialized' = FALSE
              /\ Returned(c, "shutdown", NoTask, "ok")
         ELSE /\ Returned(c, "shutdown", NoTask, "threw")
              /\ UNCHANGED <<worker, queue, initialized>>
    /\ UNCHANGED <<others, dependencies, engine, scheduler_mode, active_timers,
                   timers, jobs, requests, now, dispatched, cancelled,
                   serialized, trail>>

\* ---------------------------------------------------------------- firing
\* a process_job that invokes the dispatcher a second time, as a retry of a
\* failed delivery would
process_job_with_retry(rid) == [dispatched EXCEPT ![rid] = 2]

\* process_job(reminder_request): one invocation of
\* reminder_dispatcher.dispatch_task_reminder for the request
process_job(rid) ==
    [dispatched EXCEPT ![rid] = IF @ < 2 THEN @ + 1 ELSE @]

\* a runtime that runs the callback of any timer that is due, whichever
\* expires first
timer_callback_any_due(tm) ==
    /\ tm \in timers
    /\ tm.due <= now
    /\ timers' = timers \ {tm}
    /\ dispatched' = process_job(tm.handle)
    /\ \E sent \in BOOLEAN :
         event' = [op |-> "timer_callback", task_id |-> tm.task_id,
                   ret |-> IF sent THEN "sent" ELSE "dispatch_failed"]
    /\ trail' = TrailFired(tm.task_id)
    /\ UNCHANGED <<others, dependencies, engine, scheduler_mode, queue, worker,
                   initialized, active_timers, jobs, requests, now, calls,
                   cancelled, serialized>>

\* a timer callback that leaves its timer armed, as setInterval would
timer_callback_stays_armed(tm) ==
    /\ tm \in timers
    /\ tm.due <= now
    /\ \A other \in timers : tm.due <= other.due
    /\ timers' = timers
    /\ dispatched' = process_job(tm.handle)
    /\ \E sent \in BOOLEAN :
         event' = [op |-> "timer_callback", task_id |-> tm.task_id,
                   ret |-> IF sent THEN "sent" ELSE "dispatch_failed"]
    /\ trail' = TrailFired(tm.task_id)
    /\ UNCHANGED <<others, dependencies, engine, scheduler_mode, queue,
                   worker, initialized, active_timers, jobs, requests, now,
                   calls, cancelled, serialized>>

\* the setTimeout callback of schedule_reminder runs: the runtime fires the
\* armed timer with the earliest expiry once it is due; a dispatch failure
\* is caught and logged
timer_callback(tm) ==
    /\ tm \in timers
    /\ tm.due <= now
    /\ \A other \in timers : tm.due <= other.due
    /\ timers' = timers \ {tm}
    /\ dispatched' = process_job(tm.handle)
    /\ \E sent \in BOOLEAN :
         event' = [op |-> "timer_callback", task_id |-> tm.task_id,
                   ret |-> IF sent THEN "sent" ELSE "dispatch_failed"]
    /\ trail' = TrailFired(tm.task_id)
    /\ UNCHANGED <<others, dependencies, engine, scheduler_mode, queue, worker,
                   initialized, active_timers, jobs, requests, now, calls,
                   cancelled, serialized>>

\* the worker takes a due delayed job and calls process_job on it
worker_process(t) ==
    /\ worker = "open"
    /\ jobs[t].state = "delayed"
    /\ jobs[t].due <= now
    /\ jobs' = [jobs EXCEPT ![t].state = "active"]
    /\ dispatched' = process_job(jobs[t].rid)
    /\ event' = [op |-> "worker", task_id |-> t, ret |-> "active"]
    /\ trail' = TrailFired(t)
    /\ UNCHANGED <<others, dependencies, engine, scheduler_mode, queue, worker,
                   initialized, active_timers, timers, requests, now, calls,
                   cancelled, serialized>>

\* a worker whose finished jobs stay in the queue's history, as they do
\* without removeOnComplete and removeOnFail
worker_finish_keeps_job(t) ==
    /\ jobs[t].state = "active"
    /\ jobs' = [jobs EXCEPT ![t].state = "finished"]
    /\ \E sent \in BOOLEAN :
         event' = [op |-> "worker", task_id |-> t,
                   ret |-> IF sent THEN "completed" ELSE "failed"]
    /\ UNCHANGED <<others, dependencies, engine, scheduler_mode, queue, worker,
                   initialized, active_timers, timers, requests, now, calls,
                   dispatched, cancelled, serialized, trail>>

\* process_job settles: removeOnComplete / removeOnFail drop the job, the
\* 'failed' hook logs a failure
worker_finish(t) ==
    /\ jobs[t].state = "active"
    /\ jobs' = [jobs EXCEPT ![t] = NoJob]
    /\ \E sent \in BOOLEAN :
         event' = [op |-> "worker", task_id |-> t,
                   ret |-> IF sent THEN "completed" ELSE "failed"]
    /\ UNCHANGED <<others, dependencies, engine, scheduler_mode, queue, worker,
                   initialized, active_timers, timers, requests, now, calls,
                   dispatched, cancelled, serialized, trail>>

\* Date.now() advances
Tick ==
    /\ now < MaxTime
    /\ now' = now + 1
    /\ event' = NoEvent
    /\ UNCHANGED <<others, dependencies, engine, scheduler_mode, queue, worker,
                   initialized, active_timers, timers, jobs, requests, calls,
                   dispatched, cancelled, serialized, trail>>

\* ------------------------------------------------------------------ Next
Next ==
    \/ constructor
    \/ \E c \in Callers : initialize_call(c)
    \/ \E c \in Callers : initialize_ready(c)
    \/ \E c \in Callers : switch_worker_closed(c)
    \/ \E c \in Callers : switch_queue_closed(c)
    \/ \E c \in Callers : initialize_after_switch(c)
    \/ \E c \in Callers, t \in Tasks : cancel_reminder_call(c, t)
    \/ \E c \in Callers, t \in Tasks, rt \in ReminderTimes :
         schedule_reminder_call(c, t, rt)
    \/ \E c \in Callers : getJob_done(c)
    \/ \E c \in Callers : remove_done(c)
    \/ \E c \in Callers : schedule_after_cancel(c)
    \/ \E c \in Callers : queue_add_done(c)
    \/ \E c \in Callers : shutdown_call(c)
    \/ \E c \in Callers : shutdown_closed(c)
    \/ \E tm \in timers : timer_callback(tm)
    \/ \E t \in Tasks : worker_process(t)
    \/ \E t \in Tasks : worker_finish(t)
    \/ Tick

Spec == Init /\ [][Next]_vars

SpecSerialized == InitSerialized /\ [][Next]_vars

\* ---------------------------------------- the engine in in-memory mode
\* forced in-memory mode: the steps of the engine that do not involve the
\* queue, with the clock advancing and due timers being run by the runtime
InitInMemory ==
    /\ InitCommon
    /\ dependencies.force_in_memory_mode
    /\ serialized = FALSE

NextInMemory ==
    \/ constructor
    \/ \E c \in Callers : initialize_call(c)
    \/ \E c \in Callers, t \in Tasks : cancel_reminder_call(c, t)
    \/ \E c \in Callers, t \in Tasks, rt \in ReminderTimes :
         schedule_reminder_call(c, t, rt)
    \/ \E c \in Callers : schedule_after_cancel(c)
    \/ \E c \in Callers : shutdown_call(c)
    \/ \E tm \in timers : timer_callback(tm)
    \/ Tick

SpecInMemory ==
    /\ InitInMemory
    /\ [][NextInMemory]_vars
    /\ WF_vars(Tick)
    /\ WF_vars(\E tm \in timers : timer_callback(tm))

\* the task a reminder request of the engine carries, as the webhook
\* builds it: the message text as title, no due timestamp
task_of(task_id) ==
    [user_id |-> IF task_id = "T1" THEN "U1" ELSE "U2",
     title |-> IF task_id = "T1" THEN <<"d", "u", "e">> ELSE <<"(", "d">>,
     due_at_iso |-> "undefined"]

\* ---------------------------------------------------- calculate_delay_ms
\* the engine as constructed by nobody: the state the other components are
\* studied in
EngineParked ==
    /\ InitEngine
    /\ ~dependencies.enable_offline_fallback
    /\ ~dependencies.force_in_memory_mode
    /\ serialized = FALSE

Stamps == 0..MaxStamp

\* one call of calculate_delay_ms: any reminder_time_iso, any Date.now()
InitDelay ==
    /\ EngineParked
    /\ delay_calc \in [pc : {"called"},
                       reminder_time_iso :
                         {Iso(n) : n \in Stamps} \cup {Malformed},
                       clock : Stamps,
                       delay_ms : {Num(0)},
                       armed : {{}}]
    /\ ParkedExcept("delay_calc")

\* calculate_delay_ms(reminder_time_iso) returns
calculate_delay_ms_returns ==
    /\ delay_calc.pc = "called"
    /\ delay_calc' =
         [delay_calc EXCEPT
            !.pc = "returned",
            !.delay_ms = calculate_delay_ms(delay_calc.reminder_time_iso,
                                            delay_calc.clock)]
    /\ UNCHANGED but_delay_calc

\* schedule_reminder passes the delay on: setTimeout(callback, delay_ms)
delay_passed_to_timer ==
    /\ delay_calc.pc = "returned"
    /\ delay_calc' =
         [delay_calc EXCEPT
            !.pc = "armed",
            !.armed =
              setTimeout({}, 1,
                         [task_id |-> "T1",
                          reminder_time |-> delay_calc.reminder_time_iso],
                         delay_calc.delay_ms, delay_calc.clock)]
    /\ UNCHANGED but_delay_calc

NextDelay == calculate_delay_ms_returns \/ delay_passed_to_timer

SpecDelay == InitDelay /\ [][NextDelay]_vars

\* ---------------------------------------------------- ReminderDispatcher
\* text is a sequence of characters
Chars == {"(", "d", "u", "e"}

Titles == UNION {[1..n -> Chars] : n \in 0..MaxTitle}

\* task_payload.due_at_iso: absent, the empty string, a timestamp, or a
\* string that is no timestamp
DueValues == {"undefined", "empty", "valid", "invalid"}

UserIds == {"U1", "U2"}

TaskPayloads == [user_id : UserIds, title : Titles, due_at_iso : DueValues]

ClosingPhrases == {<<"h", "a", "b", "i", "b", "i", "?">>, <<"o", "k">>}

ApiBaseUrls == {<<"h", "o", "s", "t">>, <<"h", "o", "s", "t", "/">>}

\* api_base_url.replace(/\/$/, ''): one trailing slash is dropped
StripTrailingSlash(url) ==
    IF Len(url) > 0 /\ url[Len(url)] = "/"
    THEN SubSeq(url, 1, Len(url) - 1) ELSE url

\* JavaScript truthiness of task_payload.due_at_iso
Truthy(due_at_iso) == due_at_iso \notin {"undefined", "empty"}

\* new Date(due_at_iso).toLocaleString()
Date_toLocaleString(due_at_iso) ==
    IF due_at_iso = "valid"
    THEN <<"1", "0", "/", "1", "/", "2", "5">>
    ELSE <<"I", "n", "v", "a", "l", "i", "d", " ", "D", "a", "t", "e">>

\* build_message_text appending the due suffix whatever due_at_iso is
build_message_text_always_due(task_payload, closing_phrase) ==
    <<"R", "e", "m", "i", "n", "d", "e", "r", ":", " ">>
      \o task_payload.title
      \o <<" ", "(", "d", "u", "e", " ">>
      \o Date_toLocaleString(task_payload.due_at_iso) \o <<")">>
      \o <<".", " ">> \o closing_phrase

\* `Reminder: ${title}${due_suffix}. ${closing_phrase}`
build_message_text(task_payload, closing_phrase) ==
    LET due_suffix ==
          IF Truthy(task_payload.due_at_iso)
          THEN <<" ", "(", "d", "u", "e", " ">>
                 \o Date_toLocaleString(task_payload.due_at_iso) \o <<")">>
          ELSE <<>>
    IN <<"R", "e", "m", "i", "n", "d", "e", "r", ":", " ">>
         \o task_payload.title \o due_suffix
         \o <<".", " ">> \o closing_phrase

\* {to: user_id, messages: [{type: 'text', text: message_text}]}
build_push_message_payload(task_payload, closing_phrase) ==
    [to |-> task_payload.user_id,
     messages |-> <<[type |-> "text",
                     text |-> build_message_text(task_payload,
                                                 closing_phrase)]>>]

\* what http_client may answer: a rejection, or a response with a status
Responses ==
    [rejected : {TRUE}, status : {0}]
      \cup [rejected : {FALSE}, status : {200, 204, 299, 300, 404, 500}]

\* a response.ok that also accepts redirects
Response_ok_below_400(response) == response.status < 400

\* response.ok: a status in the range 200-299
Response_ok(response) == response.status >= 200 /\ response.status <= 299

\* a constructed ReminderDispatcher and the task it is called with
InitDispatcher ==
    /\ EngineParked
    /\ ParkedExcept("dispatcher")
    /\ \E base \in ApiBaseUrls, phrase \in ClosingPhrases,
          task \in TaskPayloads :
         dispatcher = [pc |-> "ready",
                       dependencies |-> [api_base_url |-> base,
                                         closing_phrase |-> phrase],
                       api_base_url |-> StripTrailingSlash(base),
                       closing_phrase |-> phrase,
                       task_payload |-> task,
                       message_text |-> <<>>,
                       http_requests |-> <<>>,
                       response |-> [rejected |-> FALSE, status |-> 0],
                       outcome |-> "none"]

\* build_message_text(task_payload) called on its own
build_message_text_call ==
    /\ dispatcher.pc = "ready"
    /\ dispatcher' =
         [dispatcher EXCEPT
            !.pc = "built",
            !.message_text = build_message_text(dispatcher.task_payload,
                                                dispatcher.closing_phrase)]
    /\ UNCHANGED but_dispatcher

\* dispatch_task_reminder(task_payload) up to `await this.http_client(...)`
dispatch_task_reminder_call ==
    /\ dispatcher.pc \in {"ready", "built"}
    /\ dispatcher' =
         [dispatcher EXCEPT
            !.pc = "await_http",
            !.http_requests =
               Append(@, [input |-> dispatcher.api_base_url
                                      \o <<"/v2/bot/message/push">>,
                          method |-> "POST",
                          body |-> build_push_message_payload(
                                     dispatcher.task_payload,
                                     dispatcher.closing_phrase)])]
    /\ UNCHANGED but_dispatcher

\* `await this.http_client(...)` settles: resolve on response.ok, throw on
\* any other status and on a rejection
http_client_settles ==
    /\ dispatcher.pc = "await_http"
    /\ \E response \in Responses :
         dispatcher' =
           [dispatcher EXCEPT
              !.pc = "done",
              !.response = response,
              !.outcome = IF ~response.rejected /\ Response_ok(response)
                          THEN "resolved" ELSE "threw"]
    /\ UNCHANGED but_dispatcher

NextDispatcher ==
    \/ build_message_text_call
    \/ dispatch_task_reminder_call
    \/ http_client_settles

SpecDispatcher == InitDispatcher /\ [][NextDispatcher]_vars

\* ------------------------------------------- line_webhook_request_handler
\* an event of the webhook payload: a text message with its text, a message
\* of type text whose text is missing or empty, or any other event
EventKinds == {"text", "text_without_text", "non_text"}

EventLists == UNION {[1..n -> EventKinds] : n \in 0..MaxEvents}

\* ------------------------------------------------ validate_line_signature
\* a string is a sequence of UTF-16 code units: two ASCII letters and one
\* letter outside ASCII
CodeUnits == {"a", "b", "U+00E9"}

ChannelSecrets == {"K1", "K2"}

RequestBodies == {"B1", "B2"}

\* createHmac('sha256', secret).update(body).digest('base64'): a function of
\* secret and body whose value is an ASCII string of one fixed length
createHmac_digest(channel_secret, request_body) ==
    <<IF channel_secret = "K1" THEN "a" ELSE "b",
      IF request_body = "B1" THEN "a" ELSE "b">>

\* the UTF-8 encoding of one code unit
Utf8(unit) ==
    IF unit = "a" THEN <<97>>
    ELSE IF unit = "b" THEN <<98>> ELSE <<195, 169>>

\* Buffer.from(string): the UTF-8 bytes of the string
RECURSIVE Buffer_from(_)
Buffer_from(string) ==
    IF string = <<>> THEN <<>>
    ELSE Utf8(Head(string)) \o Buffer_from(Tail(string))

\* crypto.timingSafeEqual(a, b): throws RangeError unless the byte lengths
\* are equal, else compares the bytes
timingSafeEqual(a, b) ==
    IF Len(a) # Len(b) THEN [threw |-> TRUE, value |-> FALSE]
    ELSE [threw |-> FALSE, value |-> a = b]

\* a validator without the catch block: a throw of timingSafeEqual escapes
validate_line_signature_uncaught(secret, body, compared) ==
    LET expected_signature == createHmac_digest(secret, body)
    IN IF Len(expected_signature) # Len(compared)
       THEN [threw |-> FALSE, value |-> FALSE]
       ELSE timingSafeEqual(Buffer_from(expected_signature),
                            Buffer_from(compared))

\* a validator that stops at the length comparison
validate_line_signature_by_length(secret, body, compared) ==
    LET expected_signature == createHmac_digest(secret, body)
    IN [threw |-> FALSE,
        value |-> Len(expected_signature) = Len(compared)]

\* validate_line_signature(input): false on a different string length, else
\* timingSafeEqual on the two buffers; whatever that throws is caught and
\* answered with false
validate_line_signature(channel_secret, request_body, signature_to_compare) ==
    LET expected_signature == createHmac_digest(channel_secret, request_body)
    IN IF Len(expected_signature) # Len(signature_to_compare)
       THEN [threw |-> FALSE, value |-> FALSE]
       ELSE LET is_valid ==
                  timingSafeEqual(Buffer_from(expected_signature),
                                  Buffer_from(signature_to_compare))
            IN IF is_valid.threw THEN [threw |-> FALSE, value |-> FALSE]
               ELSE is_valid

Signatures ==
    UNION {[1..n -> CodeUnits] : n \in 0..MaxSignatureLen}

\* one call of validate_line_signature: any secret, body and signature
InitSignature ==
    /\ EngineParked
    /\ ParkedExcept("signature")
    /\ signature \in [pc : {"called"},
                      channel_secret : ChannelSecrets,
                      request_body : RequestBodies,
                      signature_to_compare : Signatures,
                      threw : {FALSE},
                      is_valid : {FALSE}]

\* validate_line_signature(input) returns or throws
validate_line_signature_settles ==
    /\ signature.pc = "called"
    /\ LET result == validate_line_signature(signature.channel_secret,
                                             signature.request_body,
                                             signature.signature_to_compare)
       IN signature' = [signature EXCEPT !.pc = "settled",
                                         !.threw = result.threw,
                                         !.is_valid = result.value]
    /\ UNCHANGED but_signature

NextSignature == validate_line_signature_settles

SpecSignature == InitSignature /\ [][NextSignature]_vars

\* -------------------------------------------- line_webhook_request_handler
\* the x-line-signature header: absent, or a string: the body's HMAC, a
\* different string of that length, a shorter one, one outside ASCII
SignatureHeaders ==
    {[present |-> FALSE, value |-> <<>>]} \cup
    {[present |-> TRUE, value |-> v] :
       v \in {<<"a", "a">>, <<"a", "b">>, <<"a">>, <<"U+00E9", "a">>}}

\* an extract_message_text that takes a text from every event
extract_message_text_from_any(line_event) == "text"

\* extract_message_text(line_event): the text of a text message, else undefined;
\* process_line_event also skips an empty text
extract_message_text(line_event) ==
    IF line_event = "text" THEN "text"
    ELSE IF line_event = "text_without_text" THEN "" ELSE "undefined"

\* one webhook request as Express hands it to the handler
InitWebhook ==
    /\ EngineParked
    /\ ParkedExcept("webhook")
    /\ webhook \in [pc : {"received"},
                    channel_secret : {"K1"},
                    request_body : {"B1"},
                    signature_header : SignatureHeaders,
                    events : EventLists,
                    i : {1},
                    log : {<<>>},
                    response : {"none"},
                    threw : {"none"}]

\* a catch block that compensates: the effects of the failed event are
\* undone before the error is passed on
handler_catch_rolls_back(op, log) ==
    webhook' = [webhook EXCEPT
                  !.pc = "done",
                  !.log = SelectSeq(log, LAMBDA e : e[2] < webhook.i),
                  !.response = "next_error", !.threw = op]

\* the catch block of the handler: next(error), no response is sent here
handler_catch(op, log) ==
    webhook' = [webhook EXCEPT !.pc = "done", !.log = log,
                               !.response = "next_error", !.threw = op]

\* the handler up to the event loop: 401 without a matching signature
line_webhook_request_handler ==
    /\ webhook.pc = "received"
    /\ IF ~webhook.signature_header.present
       THEN webhook' = [webhook EXCEPT !.pc = "done", !.response = "401"]
       ELSE LET is_valid_signature ==
                  validate_line_signature(webhook.channel_secret,
                                          webhook.request_body,
                                          webhook.signature_header.value)
            IN IF is_valid_signature.threw
               THEN handler_catch("validate_line_signature", webhook.log)
               ELSE IF ~is_valid_signature.value
               THEN webhook' =
                      [webhook EXCEPT !.pc = "done", !.response = "401"]
               ELSE webhook' = [webhook EXCEPT !.pc = "loop"]
    /\ UNCHANGED but_webhook

\* process_line_event(event) up to `await save_task(...)`: an event without
\* text returns at once; transform_text_to_task may throw
process_line_event ==
    /\ webhook.pc = "loop"
    /\ webhook.i <= Len(webhook.events)
    /\ LET text == extract_message_text(webhook.events[webhook.i])
       IN IF text \in {"", "undefined"}
          THEN webhook' = [webhook EXCEPT !.i = @ + 1]
          ELSE \E ok \in BOOLEAN :
                 IF ok
                 THEN webhook' =
                        [webhook EXCEPT
                           !.pc = "await_save",
                           !.log = Append(@, <<"save_task", webhook.i>>)]
                 ELSE handler_catch("transform_text_to_task", webhook.log)
    /\ UNCHANGED but_webhook

\* `await save_task(...)` settles; then build_reminder_request (which may
\* throw) and schedule_reminder up to its await
save_task_settles ==
    /\ webhook.pc = "await_save"
    /\ \E saved \in BOOLEAN, built \in BOOLEAN :
         IF ~saved
         THEN /\ built
              /\ handler_catch("save_task", webhook.log)
         ELSE LET log == Append(webhook.log, <<"save_task_done", webhook.i>>)
                  log_built ==
                    Append(log, <<"build_reminder_request", webhook.i>>)
              IN IF ~built
                 THEN handler_catch("build_reminder_request", log_built)
                 ELSE webhook' =
                        [webhook EXCEPT
                           !.pc = "await_schedule",
                           !.log = Append(log_built,
                                          <<"schedule_reminder",
                                            webhook.i>>)]
    /\ UNCHANGED but_webhook

\* a handler that logs a failed schedule_reminder and goes on
schedule_reminder_settles_swallows ==
    /\ webhook.pc = "await_schedule"
    /\ \E ok \in BOOLEAN :
         webhook' =
           [webhook EXCEPT
              !.pc = "loop",
              !.i = @ + 1,
              !.threw = IF ok THEN @ ELSE "schedule_reminder",
              !.log = Append(@, <<"schedule_reminder_done", webhook.i>>)]
    /\ UNCHANGED but_webhook

\* `await schedule_reminder(...)` settles: on to the next event, or the
\* rejection reaches the handler's catch block
schedule_reminder_settles ==
    /\ webhook.pc = "await_schedule"
    /\ \E ok \in BOOLEAN :
         IF ok
         THEN webhook' =
                [webhook EXCEPT
                   !.pc = "loop",
                   !.i = @ + 1,
                   !.log = Append(@, <<"schedule_reminder_done",
                                       webhook.i>>)]
         ELSE handler_catch("schedule_reminder", webhook.log)
    /\ UNCHANGED but_webhook

\* after the loop: response.status(200).json({status: 'ok'})
respond_ok ==
    /\ webhook.pc = "loop"
    /\ webhook.i > Len(webhook.events)
    /\ webhook' = [webhook EXCEPT !.pc = "done", !.response = "200"]
    /\ UNCHANGED but_webhook

NextWebhook ==
    \/ line_webhook_request_handler
    \/ process_line_event
    \/ save_task_settles
    \/ schedule_reminder_settles
    \/ respond_ok

SpecWebhook == InitWebhook /\ [][NextWebhook]_vars

\* ------------------------------------------------- build_reminder_request
\* task_payload.due_at_iso: undefined, or a string that is a timestamp or
\* is not one (the empty string included)
DueAtIso ==
    {[defined |-> FALSE, value |-> Malformed]} \cup
    {[defined |-> TRUE, value |-> v] :
       v \in {Iso(n) : n \in Stamps} \cup {Malformed}}

\* the task as build_reminder_request sees it; fields_valid: whether the
\* fields other than due_at_iso pass task_payload_schema
BuiltTasks ==
    [task_id : Tasks, due_at_iso : DueAtIso, fields_valid : BOOLEAN]

\* new Date(ms).toISOString()
Date_toISOString(ms) == Iso(ms)

\* z.string().datetime()
zod_datetime(iso) == iso.wellformed

\* reminder_request_schema.parse(candidate): throws unless the task and the
\* trigger timestamp are valid
reminder_request_schema_parse(candidate) ==
    IF /\ candidate.task.fields_valid
       /\ candidate.task.due_at_iso.defined =>
            zod_datetime(candidate.task.due_at_iso.value)
       /\ zod_datetime(candidate.reminder_time_iso)
    THEN [threw |-> FALSE, task |-> candidate.task,
          reminder_time_iso |-> candidate.reminder_time_iso]
    ELSE [threw |-> TRUE, task |-> candidate.task,
          reminder_time_iso |-> Malformed]

\* a builder that always takes the default offset
build_reminder_request_by_offset(task_payload, offset_minutes, clock) ==
    reminder_request_schema_parse(
      [task |-> task_payload,
       reminder_time_iso |-> Date_toISOString(clock + offset_minutes * 60000)])

\* build_reminder_request(task_payload, reminder_offset_minutes, ...) with
\* Date.now() = clock: due_at_iso ?? (now + offset minutes), then validated
build_reminder_request(task_payload, reminder_offset_minutes, clock) ==
    LET fallback_reminder_time ==
          Date_toISOString(clock + reminder_offset_minutes * 60000)
        reminder_time_iso ==
          IF task_payload.due_at_iso.defined
          THEN task_payload.due_at_iso.value
          ELSE fallback_reminder_time
    IN reminder_request_schema_parse(
         [task |-> task_payload, reminder_time_iso |-> reminder_time_iso])

\* one call of build_reminder_request: any task, offset and Date.now()
InitRequestBuild ==
    /\ EngineParked
    /\ ParkedExcept("request_build")
    /\ request_build \in [pc : {"called"},
                          task_payload : BuiltTasks,
                          reminder_offset_minutes : 0..MaxOffset,
                          clock : Stamps,
                          result : {[threw |-> FALSE]}]

\* build_reminder_request returns or throws
build_reminder_request_settles ==
    /\ request_build.pc = "called"
    /\ request_build' =
         [request_build EXCEPT
            !.pc = "settled",
            !.result =
              build_reminder_request(request_build.task_payload,
                                     request_build.reminder_offset_minutes,
                                     request_build.clock)]
    /\ UNCHANGED but_request_build

NextRequestBuild == build_reminder_request_settles

SpecRequestBuild == InitRequestBuild /\ [][NextRequestBuild]_vars

\* --------------------------------------------------------- TaskRepository
\* a due_at_iso that passes z.string().datetime(): the text after the common
\* prefix "2025-01-01T00:00:0", with or without fractional seconds
DueTexts == {<<"0", "Z">>, <<"0", ".", "5", "Z">>, <<"1", "Z">>}

\* task_payload.due_at_iso as saved: the key is absent, or holds a timestamp
StoredDues ==
    {[defined |-> FALSE, text |-> <<>>]} \cup
    {[defined |-> TRUE, text |-> text] : text \in DueTexts}

StoredTasks == [task_id : Tasks, user_id : UserIds, due_at_iso : StoredDues]

\* new Date(due_at_iso).getTime() of such a text, in milliseconds after the
\* common prefix
Date_parse(text) ==
    (IF text[1] = "1" THEN 1000 ELSE 0) + (IF Len(text) > 2 THEN 500 ELSE 0)

\* collation of the characters of a timestamp: punctuation, digits, letters
CharRank(char) ==
    IF char = "." THEN 0
    ELSE IF char = "0" THEN 1
    ELSE IF char = "1" THEN 2
    ELSE IF char = "5" THEN 3 ELSE 4

\* left.localeCompare(right): -1, 0 or 1, character by character; the
\* string order MongoDB sorts by compares these texts the same way
RECURSIVE localeCompare(_, _)
localeCompare(left, right) ==
    IF left = <<>> /\ right = <<>> THEN 0
    ELSE IF left = <<>> THEN -1
    ELSE IF right = <<>> THEN 1
    ELSE IF CharRank(Head(left)) < CharRank(Head(right)) THEN -1
    ELSE IF CharRank(Head(left)) > CharRank(Head(right)) THEN 1
    ELSE localeCompare(Tail(left), Tail(right))

\* due_at_iso ?? ''
OrEmpty(due_at_iso) == IF due_at_iso.defined THEN due_at_iso.text ELSE <<>>

\* the comparator of find_tasks_by_user
compare_due(left, right) ==
    localeCompare(OrEmpty(left.due_at_iso), OrEmpty(right.due_at_iso))

RECURSIVE InsertSorted(_, _)
InsertSorted(task, sorted) ==
    IF sorted = <<>> THEN <<task>>
    ELSE IF compare_due(Head(sorted), task) <= 0
    THEN <<Head(sorted)>> \o InsertSorted(task, Tail(sorted))
    ELSE <<task>> \o sorted

\* Array.prototype.sort with the comparator: a stable sort
RECURSIVE Array_sort(_)
Array_sort(tasks) ==
    IF tasks = <<>> THEN <<>>
    ELSE InsertSorted(tasks[Len(tasks)],
                      Array_sort(SubSeq(tasks, 1, Len(tasks) - 1)))

\* Array.prototype.filter, cursor filter {user_id}
RECURSIVE FilterByUser(_, _)
FilterByUser(tasks, user_id) ==
    IF tasks = <<>> THEN <<>>
    ELSE (IF Head(tasks).user_id = user_id THEN <<Head(tasks)>> ELSE <<>>)
           \o FilterByUser(Tail(tasks), user_id)

Positions(tasks, task_id) ==
    {i \in 1..Len(tasks) : tasks[i].task_id = task_id}

\* Map.prototype.set(task_id, task): replaces the value of an existing key
\* in place, else appends the entry
Map_set(store, task) ==
    IF Positions(store, task.task_id) = {} THEN Append(store, task)
    ELSE [i \in 1..Len(store) |->
            IF store[i].task_id = task.task_id THEN task ELSE store[i]]

\* updateOne({task_id}, {$set: task}, {upsert: true}): sets the fields the
\* payload has on the matching document and leaves its other fields, or
\* inserts the payload
updateOne_set_upsert(documents, task) ==
    IF Positions(documents, task.task_id) = {} THEN Append(documents, task)
    ELSE [i \in 1..Len(documents) |->
            IF documents[i].task_id # task.task_id THEN documents[i]
            ELSE [task_id |-> task.task_id,
                  user_id |-> task.user_id,
                  due_at_iso |-> IF task.due_at_iso.defined
                                 THEN task.due_at_iso
                                 ELSE documents[i].due_at_iso]]

Reverse(seq) == [i \in 1..Len(seq) |-> seq[Len(seq) + 1 - i]]

NoSaved == [t \in Tasks |-> [saved |-> FALSE]]

NoCall == [op |-> "none", outcome |-> "none"]

\* new TaskRepository(dependencies): memory mode for a memory:// URI, else
\* mongo mode with a client; the database it points to is empty.
\* documents: the tasks collection in the database; latest: per task_id the
\* payload of the last save_task that resolved on the present store
InitRepository ==
    /\ EngineParked
    /\ ParkedExcept("repository")
    /\ \E mongo_mode_requested \in BOOLEAN, fallback \in BOOLEAN :
         repository =
           [pc |-> "constructed",
            enable_offline_fallback |-> fallback,
            repository_mode |->
              IF mongo_mode_requested THEN "mongo" ELSE "memory",
            client |-> IF mongo_mode_requested THEN "MongoClient"
                       ELSE "undefined",
            collection |-> "undefined",
            is_connected |-> FALSE,
            in_memory_store |-> <<>>,
            documents |-> <<>>,
            latest |-> NoSaved,
            last |-> NoCall]

\* a switch that keeps the client and does not mark the repository connected
switch_to_memory_mode_half(repo) ==
    [repo EXCEPT !.collection = "undefined",
                 !.repository_mode = "memory",
                 !.in_memory_store = <<>>,
                 !.latest = NoSaved]

\* switch_to_memory_mode(reason): the tasks saved so far are out of reach
switch_to_memory_mode(repo) ==
    [repo EXCEPT !.client = "undefined",
                 !.collection = "undefined",
                 !.repository_mode = "memory",
                 !.is_connected = TRUE,
                 !.in_memory_store = <<>>,
                 !.latest = NoSaved]

Settled(repo, op, outcome, mongo_failed, result) ==
    [repo EXCEPT !.last = [op |-> op, outcome |-> outcome,
                           mongo_failed |-> mongo_failed,
                           result |-> result]]

\* connect(): nothing to do when connected or in memory mode; else the
\* client connects, or its failure switches to memory mode or is rethrown
TaskRepository_connect ==
    /\ repository.pc = "constructed"
    /\ IF repository.is_connected
       THEN repository' = Settled(repository, "connect", "resolved", FALSE,
                                  <<>>)
       ELSE IF repository.repository_mode = "memory"
       THEN repository' =
              Settled([repository EXCEPT !.is_connected = TRUE],
                      "connect", "resolved", FALSE, <<>>)
       ELSE \E connected \in BOOLEAN :
              IF connected
              THEN repository' =
                     Settled([repository EXCEPT !.collection = "tasks",
                                                !.is_connected = TRUE],
                             "connect", "resolved", FALSE, <<>>)
              ELSE IF repository.enable_offline_fallback
              THEN repository' =
                     Settled(switch_to_memory_mode(repository),
                             "connect", "resolved", TRUE, <<>>)
              ELSE repository' =
                     Settled(repository, "connect", "rejected", TRUE, <<>>)
    /\ UNCHANGED but_repository

\* disconnect(): memory mode clears the store; mongo mode closes the client
TaskRepository_disconnect ==
    /\ repository.pc = "constructed"
    /\ IF ~repository.is_connected
       THEN repository' = Settled(repository, "disconnect", "resolved",
                                  FALSE, <<>>)
       ELSE IF repository.repository_mode = "memory"
       THEN repository' =
              Settled([repository EXCEPT !.is_connected = FALSE,
                                         !.in_memory_store = <<>>,
                                         !.latest = NoSaved],
                      "disconnect", "resolved", FALSE, <<>>)
       ELSE \E closed \in BOOLEAN :
              IF closed
              THEN repository' =
                     Settled([repository EXCEPT !.collection = "undefined",
                                                !.is_connected = FALSE],
                             "disconnect", "resolved", FALSE, <<>>)
              ELSE repository' =
                     Settled(repository, "disconnect", "rejected", TRUE,
                             <<>>)
    /\ UNCHANGED but_repository

\* the repository after a save_task(task) that resolved
Saved(repo, task) ==
    [repo EXCEPT !.latest[task.task_id] = [saved |-> TRUE, task |-> task]]

\* save_task(task_payload): Map.set in memory mode; in mongo mode it throws
\* without a collection, else upserts
TaskRepository_save_task(task) ==
    /\ repository.pc = "constructed"
    /\ IF repository.repository_mode = "memory"
       THEN repository' =
              Settled(Saved([repository EXCEPT
                               !.in_memory_store = Map_set(@, task)], task),
                      "save_task", "resolved", FALSE, <<>>)
       ELSE IF repository.collection = "undefined"
       THEN repository' =
              Settled(repository, "save_task", "rejected", FALSE, <<>>)
       ELSE \E written \in BOOLEAN :
              IF written
              THEN repository' =
                     Settled(Saved([repository EXCEPT
                                      !.documents =
                                        updateOne_set_upsert(@, task)],
                                   task),
                             "save_task", "resolved", FALSE, <<>>)
              ELSE repository' =
                     Settled(repository, "save_task", "rejected", TRUE, <<>>)
    /\ UNCHANGED but_repository

\* find_tasks_by_user(user_id): the store's values filtered and sorted, or
\* the cursor's documents sorted by the database, which returns equal keys
\* in any order
TaskRepository_find_tasks_by_user(user_id) ==
    /\ repository.pc = "constructed"
    /\ IF repository.repository_mode = "memory"
       THEN repository' =
              Settled(repository, "find_tasks_by_user", "resolved", FALSE,
                      [user_id |-> user_id,
                       tasks |->
                         Array_sort(FilterByUser(repository.in_memory_store,
                                                 user_id))])
       ELSE IF repository.collection = "undefined"
       THEN repository' =
              Settled(repository, "find_tasks_by_user", "rejected", FALSE,
                      <<>>)
       ELSE \E read \in BOOLEAN, natural \in {repository.documents,
                                               Reverse(repository.documents)} :
              IF read
              THEN repository' =
                     Settled(repository, "find_tasks_by_user", "resolved",
                             FALSE,
                             [user_id |-> user_id,
                              tasks |->
                                Array_sort(FilterByUser(natural, user_id))])
              ELSE repository' =
                     Settled(repository, "find_tasks_by_user", "rejected",
                             TRUE, <<>>)
    /\ UNCHANGED but_repository

NextRepository ==
    \/ TaskRepository_connect
    \/ TaskRepository_disconnect
    \/ \E task \in StoredTasks : TaskRepository_save_task(task)
    \/ \E user_id \in UserIds : TaskRepository_find_tasks_by_user(user_id)

SpecRepository == InitRepository /\ [][NextRepository]_vars

\* ----------------------------------------------------------- ngrok_tunnel
\* what ngrok_module.connect may resolve with
PublicUrls == {"https://a.ngrok.dev", "https://b.ngrok.dev"}

NgrokRegions == {"us", "eu"}

NgrokDomains == {"undefined", "example.ngrok.dev"}

\* establish_ngrok_tunnel(configuration, ngrok_module_loader) is called
InitNgrok ==
    /\ EngineParked
    /\ ParkedExcept("ngrok")
    /\ ngrok \in [pc : {"called"},
                  region : NgrokRegions,
                  domain : NgrokDomains,
                  result : {"pending"},
                  public_url : {"none"},
                  module_calls : {<<>>},
                  handle : {"none"},
                  handle_calls : {0},
                  first_call : {1}]

\* establish_ngrok_tunnel up to `await ngrok_module_loader()`
establish_ngrok_tunnel ==
    /\ ngrok.pc = "called"
    /\ ngrok' = [ngrok EXCEPT !.pc = "await_loader"]
    /\ UNCHANGED but_ngrok

\* the loader settles: no module, undefined is returned; a module, connect
\* is called on it; a rejection is rethrown
ngrok_module_loader_settles ==
    /\ ngrok.pc = "await_loader"
    /\ \E outcome \in {"module", "undefined", "threw"} :
         IF outcome = "module"
         THEN ngrok' =
                [ngrok EXCEPT
                   !.pc = "await_connect",
                   !.module_calls =
                     Append(@, <<"connect",
                                 [hostname |-> ngrok.domain,
                                  region |-> ngrok.region,
                                  proto |-> "http"]>>)]
         ELSE ngrok' = [ngrok EXCEPT !.pc = "returned", !.result = outcome]
    /\ UNCHANGED but_ngrok

\* `await ngrok_module.connect(...)` settles: the handle is returned, or the
\* rejection is rethrown
ngrok_connect_settles ==
    /\ ngrok.pc = "await_connect"
    /\ \/ \E public_url \in PublicUrls :
            ngrok' = [ngrok EXCEPT !.pc = "returned",
                                   !.result = "handle",
                                   !.public_url = public_url,
                                   !.handle = "idle"]
       \/ ngrok' = [ngrok EXCEPT !.pc = "returned", !.result = "threw"]
    /\ UNCHANGED but_ngrok

\* handle.disconnect() is called: disconnect_ngrok_tunnel up to
\* `await ngrok_module.disconnect(public_url)`
handle_disconnect ==
    /\ ngrok.pc = "returned"
    /\ ngrok.handle \in {"idle", "resolved", "rejected"}
    /\ ngrok.handle_calls < MaxHandleCalls
    /\ ngrok' = [ngrok EXCEPT
                   !.handle = "await_disconnect",
                   !.handle_calls = @ + 1,
                   !.first_call = Len(ngrok.module_calls) + 1,
                   !.module_calls =
                     Append(@, <<"disconnect", ngrok.public_url>>)]
    /\ UNCHANGED but_ngrok

\* a disconnect_ngrok_tunnel that does not call kill()
ngrok_disconnect_settles_no_kill ==
    /\ ngrok.pc = "returned"
    /\ ngrok.handle = "await_disconnect"
    /\ \E ok \in BOOLEAN :
         ngrok' = [ngrok EXCEPT
                     !.handle = IF ok THEN "resolved" ELSE "rejected"]
    /\ UNCHANGED but_ngrok

\* `await ngrok_module.disconnect(public_url)` settles: kill() is called, or
\* the rejection is rethrown
ngrok_module_disconnect_settles ==
    /\ ngrok.pc = "returned"
    /\ ngrok.handle = "await_disconnect"
    /\ \E ok \in BOOLEAN :
         IF ok
         THEN ngrok' = [ngrok EXCEPT
                          !.handle = "await_kill",
                          !.module_calls = Append(@, <<"kill", "none">>)]
         ELSE ngrok' = [ngrok EXCEPT !.handle = "rejected"]
    /\ UNCHANGED but_ngrok

\* `await ngrok_module.kill()` settles
ngrok_module_kill_settles ==
    /\ ngrok.pc = "returned"
    /\ ngrok.handle = "await_kill"
    /\ \E ok \in BOOLEAN :
         ngrok' = [ngrok EXCEPT
                     !.handle = IF ok THEN "resolved" ELSE "rejected"]
    /\ UNCHANGED but_ngrok

NextNgrok ==
    \/ establish_ngrok_tunnel
    \/ ngrok_module_loader_settles
    \/ ngrok_connect_settles
    \/ handle_disconnect
    \/ ngrok_module_disconnect_settles
    \/ ngrok_module_kill_settles

SpecNgrok == InitNgrok /\ [][NextNgrok]_vars

\* ------------------------------------------------------ bootstrap_server
TerminationSignals == {"SIGINT", "SIGTERM"}

HandlerRuns == 1..MaxSignals

NoHandlerRun == [pc |-> "none", signal |-> "none"]

\* void bootstrap_server(): the process has just started
InitBootstrap ==
    /\ EngineParked
    /\ ParkedExcept("bootstrap")
    /\ bootstrap \in [pc : {"start"},
                      enable_ngrok_tunnel : BOOLEAN,
                      ngrok_tunnel_handle : {FALSE},
                      initialize_failed : {FALSE},
                      listening : {FALSE},
                      handlers_registered : {FALSE},
                      signals : {<<>>},
                      runs : {[k \in HandlerRuns |-> NoHandlerRun]},
                      shutdown_calls : {0},
                      events_processed : {0},
                      exit_code : {"none"}]

\* process.exit(code): the process is gone, nothing of it runs any more
process_exit(code) ==
    bootstrap' = [bootstrap EXCEPT !.pc = "exited", !.exit_code = code]

Alive == bootstrap.pc \notin {"none", "exited"}

\* configuration is read, the repository is constructed and connect() is
\* awaited; a throw on the way is caught: process.exit(1)
bootstrap_server ==
    /\ bootstrap.pc = "start"
    /\ \E ok \in BOOLEAN :
         IF ok THEN bootstrap' = [bootstrap EXCEPT !.pc = "await_connect"]
         ELSE process_exit("1")
    /\ UNCHANGED but_bootstrap

\* `await task_repository.connect()` settles; the dispatcher and the
\* scheduler are constructed and initialize() is awaited
connect_settles ==
    /\ bootstrap.pc = "await_connect"
    /\ \E ok \in BOOLEAN :
         IF ok THEN bootstrap' = [bootstrap EXCEPT !.pc = "await_initialize"]
         ELSE process_exit("1")
    /\ UNCHANGED but_bootstrap

\* a bootstrap that logs a failed initialize() and goes on to listen
initialize_settles_goes_on ==
    /\ bootstrap.pc = "await_initialize"
    /\ \E ok \in BOOLEAN :
         bootstrap' = [bootstrap EXCEPT !.pc = "await_listen",
                                        !.initialize_failed = ~ok]
    /\ UNCHANGED but_bootstrap

\* `await reminder_scheduler.initialize()` settles: the routers are built
\* and start_http_server is awaited, or the rejection is caught:
\* process.exit(1)
initialize_settles ==
    /\ bootstrap.pc = "await_initialize"
    /\ \E ok \in BOOLEAN :
         IF ok THEN bootstrap' = [bootstrap EXCEPT !.pc = "await_listen"]
         ELSE bootstrap' = [bootstrap EXCEPT !.pc = "exited",
                                             !.exit_code = "1",
                                             !.initialize_failed = TRUE]
    /\ UNCHANGED but_bootstrap

\* express_app.listen: the server listens and the listen callback resolves
\* the promise, or the server's 'error' event ends the process
listen_callback ==
    /\ bootstrap.pc = "await_listen"
    /\ \E ok \in BOOLEAN :
         IF ok THEN bootstrap' = [bootstrap EXCEPT !.pc = "listening",
                                                   !.listening = TRUE]
         ELSE process_exit("1")
    /\ UNCHANGED but_bootstrap

\* process.on('SIGINT', shutdown); process.on('SIGTERM', shutdown)
register_handlers(handle) ==
    bootstrap' = [bootstrap EXCEPT !.pc = "running",
                                   !.ngrok_tunnel_handle = handle,
                                   !.handlers_registered = TRUE]

\* bootstrap_server resumes after start_http_server: the tunnel is
\* requested when enabled, else the signal handlers are registered
start_http_server_settles ==
    /\ bootstrap.pc = "listening"
    /\ IF bootstrap.enable_ngrok_tunnel
       THEN bootstrap' = [bootstrap EXCEPT !.pc = "await_ngrok"]
       ELSE register_handlers(FALSE)
    /\ UNCHANGED but_bootstrap

\* `await establish_ngrok_tunnel(...)` settles with a handle, with
\* undefined or with a rejection
establish_ngrok_tunnel_settles ==
    /\ bootstrap.pc = "await_ngrok"
    /\ \E outcome \in {"handle", "undefined", "threw"} :
         IF outcome = "threw" THEN process_exit("1")
         ELSE register_handlers(outcome = "handle")
    /\ UNCHANGED but_bootstrap

\* the running server processes a webhook event
webhook_event_processed ==
    /\ Alive
    /\ bootstrap.listening
    /\ bootstrap.events_processed < MaxServed
    /\ bootstrap' = [bootstrap EXCEPT !.events_processed = @ + 1]
    /\ UNCHANGED but_bootstrap

\* a termination signal arrives before the handlers are registered: the
\* runtime's default action ends the process
signal_default(sig) ==
    /\ Alive
    /\ ~bootstrap.handlers_registered
    /\ Len(bootstrap.signals) < MaxSignals
    /\ bootstrap' = [bootstrap EXCEPT !.pc = "exited",
                                      !.exit_code = "signal",
                                      !.signals = Append(@, sig)]
    /\ UNCHANGED but_bootstrap

\* a termination signal arrives: the runtime calls shutdown(), which runs
\* up to `await task_repository.disconnect()`
shutdown_handler(sig) ==
    /\ Alive
    /\ bootstrap.handlers_registered
    /\ Len(bootstrap.signals) < MaxSignals
    /\ LET k == Len(bootstrap.signals) + 1
       IN bootstrap' =
            [bootstrap EXCEPT
               !.signals = Append(@, sig),
               !.runs[k] = [pc |-> "await_disconnect", signal |-> sig]]
    /\ UNCHANGED but_bootstrap

\* `await task_repository.disconnect()` settles in a run of the handler:
\* reminder_scheduler.shutdown() is called and awaited
disconnect_settles(k) ==
    /\ Alive
    /\ bootstrap.runs[k].pc = "await_disconnect"
    /\ \E ok \in BOOLEAN :
         IF ok
         THEN bootstrap' =
                [bootstrap EXCEPT
                   !.runs[k].pc = "await_shutdown",
                   !.shutdown_calls = @ + 1]
         ELSE bootstrap' = [bootstrap EXCEPT !.runs[k].pc = "rejected"]
    /\ UNCHANGED but_bootstrap

\* `await reminder_scheduler.shutdown()` settles: the tunnel is closed when
\* there is one, else process.exit(0)
scheduler_shutdown_settles(k) ==
    /\ Alive
    /\ bootstrap.runs[k].pc = "await_shutdown"
    /\ \E ok \in BOOLEAN :
         IF ~ok
         THEN bootstrap' = [bootstrap EXCEPT !.runs[k].pc = "rejected"]
         ELSE IF bootstrap.ngrok_tunnel_handle
         THEN bootstrap' =
                [bootstrap EXCEPT !.runs[k].pc = "await_ngrok_disconnect"]
         ELSE process_exit("0")
    /\ UNCHANGED but_bootstrap

\* `await ngrok_tunnel_handle.disconnect()` settles: process.exit(0)
ngrok_disconnect_settles(k) ==
    /\ Alive
    /\ bootstrap.runs[k].pc = "await_ngrok_disconnect"
    /\ \E ok \in BOOLEAN :
         IF ok THEN process_exit("0")
         ELSE bootstrap' = [bootstrap EXCEPT !.runs[k].pc = "rejected"]
    /\ UNCHANGED but_bootstrap

\* the rejection of a handler run is handled by nobody: the runtime ends
\* the process, or only warns, depending on its unhandled-rejections mode
unhandled_rejection(k) ==
    /\ Alive
    /\ bootstrap.runs[k].pc = "rejected"
    /\ \E ends \in BOOLEAN :
         IF ends THEN process_exit("1")
         ELSE bootstrap' = [bootstrap EXCEPT !.runs[k].pc = "warned"]
    /\ UNCHANGED but_bootstrap

NextBootstrap ==
    \/ bootstrap_server
    \/ connect_settles
    \/ initialize_settles
    \/ listen_callback
    \/ start_http_server_settles
    \/ establish_ngrok_tunnel_settles
    \/ webhook_event_processed
    \/ \E sig \in TerminationSignals : signal_default(sig)
    \/ \E sig \in TerminationSignals : shutdown_handler(sig)
    \/ \E k \in HandlerRuns : disconnect_settles(k)
    \/ \E k \in HandlerRuns : scheduler_shutdown_settles(k)
    \/ \E k \in HandlerRuns : ngrok_disconnect_settles(k)
    \/ \E k \in HandlerRuns : unhandled_rejection(k)

SpecBootstrap == InitBootstrap /\ [][NextBootstrap]_vars

\* ------------------------------------- the two ReminderScheduler classes
\* The fallback-capable ReminderScheduler (logger.ts) and the BullMQ-only
\* ReminderScheduler (reminders/reminder_scheduler.ts), built with the same
\* arguments and driven by the same calls on one healthy backend. Within a
\* call each class is a function from its fields, the call and the results
\* of the queue/worker operations it has awaited so far to what it does
\* next: issue an operation, or return.
Op(name, t, rt, delay) ==
    [name |-> name, task_id |-> t, reminder_time |-> rt, delay |-> delay]

SimpleOp(name) == Op(name, NoTask, Malformed, Num(0))

Do(op) == [kind |-> "op", op |-> op]

Return(result, fields) ==
    [kind |-> "return", result |-> result, fields |-> fields]

\* how the cancel step of a call ended, after `used` awaited operations
Done(result, used) == [kind |-> "done", result |-> result, used |-> used]

Threw(seen, n) == \E i \in 1..n : seen[i] = "threw"

NoTimers == [t \in Tasks |-> FALSE]

\* ---- reminders/reminder_scheduler.ts
\* constructor: new Queue, new Worker; a throw leaves the constructor
BullMQ_constructor(seen) ==
    IF Len(seen) = 0 THEN Do(SimpleOp("new Queue"))
    ELSE IF seen[1] = "threw" THEN Return("threw", [initialized |-> FALSE])
    ELSE IF Len(seen) = 1 THEN Do(SimpleOp("new Worker"))
    ELSE IF seen[2] = "threw" THEN Return("threw", [initialized |-> FALSE])
    ELSE Return("ok", [initialized |-> FALSE])

\* initialize(): both waitUntilReady calls are started, then awaited
BullMQ_initialize(b, seen) ==
    IF b.initialized THEN Return("ok", b)
    ELSE IF Len(seen) = 0 THEN Do(SimpleOp("queue.waitUntilReady"))
    ELSE IF Len(seen) = 1 THEN Do(SimpleOp("worker.waitUntilReady"))
    ELSE IF Threw(seen, 2) THEN Return("threw", b)
    ELSE Return("ok", [b EXCEPT !.initialized = TRUE])

\* the body of cancel_reminder(task_id): getJob, then remove when found
BullMQ_cancel(task_id, seen) ==
    IF Len(seen) = 0
    THEN Do(Op("queue.getJob", task_id, Malformed, Num(0)))
    ELSE IF seen[1] = "threw" THEN Done("threw", 1)
    ELSE IF seen[1] = "none" THEN Done("false", 1)
    ELSE IF Len(seen) = 1
    THEN Do(Op("job.remove", task_id, Malformed, Num(0)))
    ELSE IF seen[2] = "threw" THEN Done("threw", 2)
    ELSE Done("true", 2)

BullMQ_cancel_reminder(b, task_id, seen) ==
    LET cancel == BullMQ_cancel(task_id, seen)
    IN IF cancel.kind = "op" THEN cancel ELSE Return(cancel.result, b)

\* schedule_reminder(request): cancel, compute the delay, queue.add
BullMQ_schedule_reminder(b, request, seen, clock) ==
    LET cancel == BullMQ_cancel(request.task_id, seen)
    IN IF cancel.kind = "op" THEN cancel
       ELSE IF cancel.result = "threw" THEN Return("threw", b)
       ELSE IF Len(seen) = cancel.used
       THEN Do(Op("queue.add", request.task_id, request.reminder_time,
                  calculate_delay_ms(request.reminder_time, clock)))
       ELSE IF seen[cancel.used + 1] = "threw" THEN Return("threw", b)
       ELSE Return("ok", b)

\* shutdown(): worker.close() and queue.close() started, then awaited
BullMQ_shutdown(b, seen) ==
    IF Len(seen) = 0 THEN Do(SimpleOp("worker.close"))
    ELSE IF Len(seen) = 1 THEN Do(SimpleOp("queue.close"))
    ELSE IF Threw(seen, 2) THEN Return("threw", b)
    ELSE Return("ok", [b EXCEPT !.initialized = FALSE])

\* ---- logger.ts
\* the fields of the fallback-capable class before its constructor ran
Unconstructed ==
    [scheduler_mode |-> "bullmq", queue |-> "undefined",
     worker |-> "undefined", initialized |-> FALSE,
     active_timers |-> NoTimers]

\* constructor: mode from force_in_memory_mode; new Queue, new Worker in a
\* try whose catch falls back when enabled and rethrows otherwise
Fallback_constructor(flags, seen) ==
    LET in_memory == [Unconstructed EXCEPT !.scheduler_mode = "in_memory"]
        failed == IF flags.enable_offline_fallback
                  THEN Return("ok", in_memory)
                  ELSE Return("threw", Unconstructed)
    IN IF flags.force_in_memory_mode THEN Return("ok", in_memory)
       ELSE IF Len(seen) = 0 THEN Do(SimpleOp("new Queue"))
       ELSE IF seen[1] = "threw" THEN failed
       ELSE IF Len(seen) = 1 THEN Do(SimpleOp("new Worker"))
       ELSE IF seen[2] = "threw" THEN failed
       ELSE Return("ok", [Unconstructed EXCEPT !.queue = "defined",
                                               !.worker = "defined"])

\* the operations pushed for the handles that are defined, in this order
ForDefined(first, first_op, second, second_op) ==
    (IF first # "undefined" THEN <<SimpleOp(first_op)>> ELSE <<>>)
      \o (IF second # "undefined" THEN <<SimpleOp(second_op)>> ELSE <<>>)

\* switch_to_in_memory_mode: close worker, close queue (failures caught),
\* drop both, switch the mode, clear the table; initialize then returns
Fallback_switch_to_in_memory_mode(a, seen) ==
    LET closes == ForDefined(a.worker, "worker.close",
                             a.queue, "queue.close")
    IN IF Len(seen) < Len(closes) THEN Do(closes[Len(seen) + 1])
       ELSE Return("ok", [a EXCEPT !.worker = "undefined",
                                   !.queue = "undefined",
                                   !.scheduler_mode = "in_memory",
                                   !.active_timers = NoTimers,
                                   !.initialized = TRUE])

\* initialize()
Fallback_initialize(a, flags, seen) ==
    IF a.initialized THEN Return("ok", a)
    ELSE IF a.scheduler_mode = "in_memory"
    THEN Return("ok", [a EXCEPT !.initialized = TRUE])
    ELSE LET readiness_promises ==
               ForDefined(a.queue, "queue.waitUntilReady",
                          a.worker, "worker.waitUntilReady")
             n == Len(readiness_promises)
         IN IF Len(seen) < n THEN Do(readiness_promises[Len(seen) + 1])
            ELSE IF ~Threw(seen, n)
            THEN Return("ok", [a EXCEPT !.initialized = TRUE])
            ELSE IF flags.enable_offline_fallback
            THEN Fallback_switch_to_in_memory_mode(
                   a, SubSeq(seen, n + 1, Len(seen)))
            ELSE Return("threw", a)

\* the body of cancel_reminder(task_id)
Fallback_cancel(a, task_id, seen) ==
    IF a.scheduler_mode = "in_memory"
    THEN Done(IF a.active_timers[task_id] THEN "true" ELSE "false", 0)
    ELSE IF a.queue = "undefined" THEN Done("threw", 0)
    ELSE IF Len(seen) = 0
    THEN Do(Op("queue.getJob", task_id, Malformed, Num(0)))
    ELSE IF seen[1] = "threw" THEN Done("threw", 1)
    ELSE IF seen[1] = "none" THEN Done("false", 1)
    ELSE IF Len(seen) = 1
    THEN Do(Op("job.remove", task_id, Malformed, Num(0)))
    ELSE IF seen[2] = "threw" THEN Done("threw", 2)
    ELSE Done("true", 2)

\* the fields after the cancel step: the in-memory branch deleted the entry
AfterCancel(a, task_id) ==
    IF a.scheduler_mode = "in_memory"
    THEN [a EXCEPT !.active_timers[task_id] = FALSE]
    ELSE a

Fallback_cancel_reminder(a, task_id, seen) ==
    LET cancel == Fallback_cancel(a, task_id, seen)
    IN IF cancel.kind = "op" THEN cancel
       ELSE Return(cancel.result, AfterCancel(a, task_id))

\* schedule_reminder(request)
Fallback_schedule_reminder(a, request, seen, clock) ==
    LET cancel == Fallback_cancel(a, request.task_id, seen)
    IN IF cancel.kind = "op" THEN cancel
       ELSE IF cancel.result = "threw"
       THEN Return("threw", a)
       ELSE IF a.scheduler_mode = "in_memory"
       THEN Return("ok", [a EXCEPT !.active_timers[request.task_id] = TRUE])
       ELSE IF a.queue = "undefined" THEN Return("threw", a)
       ELSE IF Len(seen) = cancel.used
       THEN Do(Op("queue.add", request.task_id, request.reminder_time,
                  calculate_delay_ms(request.reminder_time, clock)))
       ELSE IF seen[cancel.used + 1] = "threw" THEN Return("threw", a)
       ELSE Return("ok", a)

\* a shutdown that closes the queue before the worker
Fallback_shutdown_queue_first(a, seen) ==
    IF a.scheduler_mode = "in_memory"
    THEN Return("ok", [a EXCEPT !.active_timers = NoTimers,
                                !.initialized = FALSE])
    ELSE LET shutdown_promises ==
               ForDefined(a.queue, "queue.close", a.worker, "worker.close")
             n == Len(shutdown_promises)
         IN IF Len(seen) < n THEN Do(shutdown_promises[Len(seen) + 1])
            ELSE IF Threw(seen, n) THEN Return("threw", a)
            ELSE Return("ok", [a EXCEPT !.initialized = FALSE])

\* shutdown()
Fallback_shutdown(a, seen) ==
    IF a.scheduler_mode = "in_memory"
    THEN Return("ok", [a EXCEPT !.active_timers = NoTimers,
                                !.initialized = FALSE])
    ELSE LET shutdown_promises ==
               ForDefined(a.worker, "worker.close", a.queue, "queue.close")
             n == Len(shutdown_promises)
         IN IF Len(seen) < n THEN Do(shutdown_promises[Len(seen) + 1])
            ELSE IF Threw(seen, n) THEN Return("threw", a)
            ELSE Return("ok", [a EXCEPT !.initialized = FALSE])

\* ---- the backend both classes talk to, and the calls made on them
MaxSchedulerCalls == 3

NoDelayedJob == [state |-> "none", due |-> 0, reminder_time |-> Malformed]

\* the results a healthy backend may give to an operation: an open queue
\* answers; the job of a task is found when the queue holds one; a job that
\* is being processed is locked against removal; what a closed handle, or
\* the removal of a job that is gone, answers is not fixed
Backend_results(backend, op) ==
    IF op.name \in {"new Queue", "new Worker", "worker.close", "queue.close"}
    THEN {"ok"}
    ELSE IF op.name = "queue.waitUntilReady"
    THEN IF backend.queue = "open" THEN {"ok"} ELSE {"ok", "threw"}
    ELSE IF op.name = "worker.waitUntilReady"
    THEN IF backend.worker = "open" THEN {"ok"} ELSE {"ok", "threw"}
    ELSE IF backend.queue # "open"
    THEN {"threw"}
    ELSE IF op.name = "queue.getJob"
    THEN {IF backend.jobs[op.task_id].state = "none" THEN "none" ELSE "job"}
    ELSE IF op.name = "job.remove"
    THEN IF backend.jobs[op.task_id].state = "delayed" THEN {"ok"}
         ELSE IF backend.jobs[op.task_id].state = "active" THEN {"threw"}
         ELSE {"ok", "threw"}
    ELSE {"ok"}

\* the backend after the operation gave that result
Backend_apply(backend, op, result, clock) ==
    IF result = "threw" THEN backend
    ELSE IF op.name = "new Queue" THEN [backend EXCEPT !.queue = "open"]
    ELSE IF op.name = "new Worker" THEN [backend EXCEPT !.worker = "open"]
    ELSE IF op.name = "queue.close" THEN [backend EXCEPT !.queue = "closed"]
    ELSE IF op.name = "worker.close"
    THEN [backend EXCEPT !.worker = "closed"]
    ELSE IF op.name = "job.remove"
    THEN [backend EXCEPT !.jobs[op.task_id] = NoDelayedJob]
    ELSE IF op.name = "queue.add"
    THEN IF backend.jobs[op.task_id].state # "none" THEN backend
         ELSE [backend EXCEPT
                 !.jobs[op.task_id] =
                   [state |-> "delayed",
                    due |-> clock + EffectiveDelay(op.delay),
                    reminder_time |-> op.reminder_time]]
    ELSE backend

SchedulerCall(op, t, rt) ==
    [op |-> op, task_id |-> t, reminder_time |-> rt]

SchedulerCalls ==
    {SchedulerCall(op, NoTask, Malformed) : op \in {"initialize", "shutdown"}}
      \cup {SchedulerCall("cancel_reminder", t, Malformed) : t \in Tasks}
      \cup {SchedulerCall("schedule_reminder", t, rt) :
              t \in Tasks, rt \in ReminderTimes}

\* both classes are being constructed with enable_offline_fallback = false
\* and force_in_memory_mode unset
InitSchedulers ==
    /\ EngineParked
    /\ ParkedExcept("schedulers")
    /\ schedulers =
         [pc |-> "running",
          flags |-> [enable_offline_fallback |-> FALSE,
                     force_in_memory_mode |-> FALSE],
          call |-> SchedulerCall("constructor", NoTask, Malformed),
          seen |-> <<>>,
          fallback |-> Unconstructed,
          bullmq |-> [initialized |-> FALSE],
          backend |-> [queue |-> "none", worker |-> "none",
                       jobs |-> [t \in Tasks |-> NoDelayedJob]],
          clock |-> 0,
          calls |-> 0,
          returned |-> [fallback |-> "none", bullmq |-> "none"]]

\* what the fallback-capable class does next in the call in progress
FallbackNext ==
    LET a == schedulers.fallback
        call == schedulers.call
        seen == schedulers.seen
    IN IF call.op = "constructor"
       THEN Fallback_constructor(schedulers.flags, seen)
       ELSE IF call.op = "initialize"
       THEN Fallback_initialize(a, schedulers.flags, seen)
       ELSE IF call.op = "cancel_reminder"
       THEN Fallback_cancel_reminder(a, call.task_id, seen)
       ELSE IF call.op = "schedule_reminder"
       THEN Fallback_schedule_reminder(a, call, seen, schedulers.clock)
       ELSE Fallback_shutdown(a, seen)

\* what the BullMQ-only class does next in the call in progress
BullMQNext ==
    LET b == schedulers.bullmq
        call == schedulers.call
        seen == schedulers.seen
    IN IF call.op = "constructor" THEN BullMQ_constructor(seen)
       ELSE IF call.op = "initialize" THEN BullMQ_initialize(b, seen)
       ELSE IF call.op = "cancel_reminder"
       THEN BullMQ_cancel_reminder(b, call.task_id, seen)
       ELSE IF call.op = "schedule_reminder"
       THEN BullMQ_schedule_reminder(b, call, seen, schedulers.clock)
       ELSE BullMQ_shutdown(b, seen)

\* the two classes do the same thing next
Agree(fa, fb) ==
    /\ fa.kind = fb.kind
    /\ fa.kind = "op" => fa.op = fb.op
    /\ fa.kind = "return" => fa.result = fb.result

\* the caller makes the next call on both objects
scheduler_call_starts(call) ==
    /\ schedulers.pc = "idle"
    /\ schedulers.calls < MaxSchedulerCalls
    /\ schedulers' = [schedulers EXCEPT !.pc = "running", !.call = call,
                                        !.seen = <<>>, !.calls = @ + 1]
    /\ UNCHANGED but_schedulers

\* both classes issue their next queue/worker operation and await it
scheduler_operation ==
    /\ schedulers.pc = "running"
    /\ Agree(FallbackNext, BullMQNext)
    /\ FallbackNext.kind = "op"
    /\ \E result \in Backend_results(schedulers.backend, FallbackNext.op) :
         schedulers' =
           [schedulers EXCEPT
              !.seen = Append(@, result),
              !.backend = Backend_apply(@, FallbackNext.op, result,
                                        schedulers.clock)]
    /\ UNCHANGED but_schedulers

\* both calls return (or throw); an object whose constructor threw is gone
scheduler_call_returns ==
    /\ schedulers.pc = "running"
    /\ Agree(FallbackNext, BullMQNext)
    /\ FallbackNext.kind = "return"
    /\ schedulers' =
         [schedulers EXCEPT
            !.pc = IF schedulers.call.op = "constructor"
                      /\ FallbackNext.result = "threw"
                   THEN "gone" ELSE "idle",
            !.fallback = FallbackNext.fields,
            !.bullmq = BullMQNext.fields,
            !.returned = [fallback |-> FallbackNext.result,
                          bullmq |-> BullMQNext.result]]
    /\ UNCHANGED but_schedulers

\* the worker takes a due job and starts processing it
backend_job_taken(t) ==
    /\ schedulers.pc \in {"idle", "running"}
    /\ schedulers.backend.worker = "open"
    /\ schedulers.backend.jobs[t].state = "delayed"
    /\ schedulers.backend.jobs[t].due <= schedulers.clock
    /\ schedulers' = [schedulers EXCEPT !.backend.jobs[t].state = "active"]
    /\ UNCHANGED but_schedulers

\* the job's processing ends and removeOnComplete/removeOnFail drop it
backend_job_finished(t) ==
    /\ schedulers.pc \in {"idle", "running"}
    /\ schedulers.backend.jobs[t].state = "active"
    /\ schedulers' = [schedulers EXCEPT !.backend.jobs[t] = NoDelayedJob]
    /\ UNCHANGED but_schedulers

\* Date.now() advances
scheduler_clock_ticks ==
    /\ schedulers.pc \in {"idle", "running"}
    /\ schedulers.clock < MaxTime
    /\ schedulers' = [schedulers EXCEPT !.clock = @ + 1]
    /\ UNCHANGED but_schedulers

NextSchedulers ==
    \/ \E call \in SchedulerCalls : scheduler_call_starts(call)
    \/ scheduler_operation
    \/ scheduler_call_returns
    \/ \E t \in Tasks : backend_job_taken(t)
    \/ \E t \in Tasks : backend_job_finished(t)
    \/ scheduler_clock_ticks

SpecSchedulers == InitSchedulers /\ [][NextSchedulers]_vars

\* ================================================================ claims
\* the engine's own state: mode, handles, flag, table, armed timers, jobs
EngineState ==
    <<scheduler_mode, queue, worker, initialized, active_timers, timers,
      jobs, dispatched, cancelled>>

\* the entry of task t in the table of the current mode
HasEntry(t) ==
    IF scheduler_mode = "in_memory" THEN active_timers[t] # 0
    ELSE jobs[t] # NoJob

\* exactly one live entry for t: the table's timer is the one armed timer of
\* t (in-memory), or the queue holds one delayed job under jobId t (durable)
ExactlyOneEntry(t) ==
    IF scheduler_mode = "in_memory"
    THEN /\ active_timers[t] # 0
         /\ Cardinality(ArmedFor(t)) = 1
         /\ \A tm \in ArmedFor(t) : tm.handle = active_timers[t]
    ELSE /\ jobs[t].state = "delayed"
         /\ ArmedFor(t) = {}

TableEmpty == \A t \in Tasks : active_timers[t] = 0

\* C1: in either mode, after N >= 1 consecutive non-overlapping
\* schedule_reminder calls for a task (no fire in between) exactly one entry
\* for it exists; the next cancel_reminder returns true, the one after false.
C1_AtMostOnePending ==
    \A t \in Tasks :
      LET tr == trail[t]
          n == Len(tr)
      IN /\ (n >= 1 /\ tr[n] = "ok" /\ \A c \in Callers : ~InFlight(c))
              => ExactlyOneEntry(t)
         /\ \A i \in 1..(n - 1) :
              tr[i] = "ok" => tr[i + 1] \in {"ok", "true"}
         /\ \A i \in 1..(n - 2) :
              (tr[i] = "ok" /\ tr[i + 1] = "true")
                => tr[i + 2] \in {"ok", "false"}

\* two schedules, then cancel -> true, cancel -> false, on the durable queue
C1_Witness ==
    \E t \in Tasks :
      /\ trail[t] = <<"ok", "ok", "true", "false">>
      /\ scheduler_mode = "bullmq"

\* C2: at any time at most one armed trigger (timer or job) exists per task
\* identifier, and in in-memory mode every armed timer is the one recorded
\* in active_timers, also while two schedule_reminder calls interleave.
C2_AtomicSupersede ==
    /\ \A t \in Tasks :
         Cardinality(ArmedFor(t)) + (IF jobs[t] # NoJob THEN 1 ELSE 0) <= 1
    /\ scheduler_mode = "in_memory" =>
         \A tm \in timers : active_timers[tm.task_id] = tm.handle

\* C3: durable mode with enable_offline_fallback: when the backend fails to
\* become ready, initialize() resolves without throwing and leaves
\* mode = in_memory, initialized, no queue, no worker, an empty timer table.
C3_FallbackTransition ==
    /\ (event.op = "initialize" /\ event.ret = "fallback") =>
         /\ scheduler_mode = "in_memory"
         /\ initialized
         /\ queue = "undefined"
         /\ worker = "undefined"
         /\ TableEmpty
    /\ (event.op = "initialize" /\ dependencies.enable_offline_fallback) =>
         event.ret # "threw"

C3_Witness == event.op = "initialize" /\ event.ret = "fallback"

\* C4: with enable_offline_fallback = false a readiness failure in
\* initialize() is thrown to the caller; the engine stays in durable mode
\* with initialized = false.
C4_FailurePropagates ==
    (event.op = "initialize" /\ ~dependencies.enable_offline_fallback) =>
      /\ event.ret # "fallback"
      /\ event.ret = "threw" =>
           (scheduler_mode = "bullmq" /\ ~initialized
              /\ queue # "undefined" /\ worker # "undefined")
      /\ event.ret = "ok" => initialized

C4_Witness ==
    /\ event.op = "initialize"
    /\ event.ret = "threw"
    /\ ~dependencies.enable_offline_fallback

\* C5: once the mode is in_memory it is never bullmq again; the only mode
\* transition is bullmq -> in_memory.
C5_ModeOneWay ==
    [][scheduler_mode = "in_memory" => scheduler_mode' = "in_memory"]_vars

\* the engine fell back, kept working and was shut down: still in_memory
C5_Witness ==
    /\ ~dependencies.force_in_memory_mode
    /\ scheduler_mode = "in_memory"
    /\ requests >= 1
    /\ event.op = "shutdown"

\* C6: with fallback enabled both failure points (constructor, initialize)
\* end in in-memory mode with an empty table and no queue or worker held;
\* with fallback disabled each of them throws.
C6_FailurePointsConverge ==
    /\ event.ret = "fallback" =>
         /\ event.op \in {"constructor", "initialize"}
         /\ dependencies.enable_offline_fallback
         /\ scheduler_mode = "in_memory"
         /\ queue = "undefined"
         /\ worker = "undefined"
         /\ TableEmpty
         /\ timers = {}
    /\ (event.op \in {"constructor", "initialize"} /\ event.ret = "threw")
         => ~dependencies.enable_offline_fallback
    /\ ~dependencies.enable_offline_fallback =>
         /\ event.ret # "fallback"
         /\ ~dependencies.force_in_memory_mode => scheduler_mode = "bullmq"

C6_Witness == event.op = "constructor" /\ event.ret = "fallback"

\* an initialize() call starts in this step
InitializeStarts ==
    \/ \E c \in Callers : calls[c].pc = "idle" /\ calls'[c].op = "initialize"
    \/ event'.op = "initialize" /\ calls' = calls

\* C7: initialize() called on an initialized engine returns at once, without
\* awaiting the backend, and leaves mode, flag and entries unchanged.
C7_InitializeIdempotent ==
    [][(initialized /\ InitializeStarts) =>
         /\ event'.op = "initialize"
         /\ event'.ret = "already_initialized"
         /\ calls' = calls
         /\ UNCHANGED EngineState]_vars

C7_Witness ==
    /\ event.op = "initialize"
    /\ event.ret = "already_initialized"
    /\ scheduler_mode = "bullmq"
    /\ \E t \in Tasks : jobs[t] # NoJob

\* a cancel_reminder(t) call returns in this step
CancelReturns(t) ==
    event'.op = "cancel_reminder" /\ event'.task_id = t

\* C8 as stated: cancel_reminder for a task without entry returns false,
\* never throws and changes nothing; for a present entry it removes the
\* entry, returns true, and that reminder never fires afterwards.
C8_CancelContract ==
    [][/\ \A t \in Tasks :
            CancelReturns(t) =>
              IF HasEntry(t)
              THEN event'.ret = "true" /\ ~HasEntry(t)'
              ELSE event'.ret = "false" /\ UNCHANGED EngineState
       /\ \A h \in cancelled : dispatched'[h] = dispatched[h]]_vars

\* C8 amended: a cancel_reminder that returns false found no entry and
\* changed nothing; it never throws in in-memory mode and throws in durable
\* mode only when the lookup or the removal fails, again changing nothing;
\* a lookup that finds no job never returns true; when it returns true the
\* entry is gone and the removed reminder never fires afterwards.
C8_CancelContractAmended ==
    [][/\ \A t \in Tasks :
            CancelReturns(t) =>
              /\ event'.ret \in {"false", "threw"} => UNCHANGED EngineState
              /\ event'.ret = "false" => ~HasEntry(t)
              /\ event'.ret = "threw" =>
                   \E c \in Callers :
                     /\ calls[c].op = "cancel_reminder"
                     /\ calls[c].pc \in {"getJob", "remove"}
                     /\ calls'[c].pc = "idle"
              /\ event'.ret = "true" =>
                   /\ ~HasEntry(t)'
                   /\ scheduler_mode = "in_memory" =>
                        /\ HasEntry(t)
                        /\ active_timers[t] \in cancelled'
                        /\ active_timers[t] \notin ArmedHandles'
                   /\ (scheduler_mode = "bullmq" /\ jobs[t] # NoJob) =>
                        jobs[t].rid \in cancelled'
       /\ \A c \in Callers :
            (/\ calls[c].op = "cancel_reminder"
             /\ calls[c].pc = "getJob"
             /\ calls'[c].pc = "idle"
             /\ jobs[calls[c].task_id] = NoJob)
              => event'.ret \in {"false", "threw"}
       /\ \A h \in cancelled : dispatched'[h] = dispatched[h]]_vars

\* a durable job was cancelled before it fired and time has passed its due
C8_Witness ==
    /\ event.op = "cancel_reminder"
    /\ event.ret = "false"
    /\ scheduler_mode = "bullmq"
    /\ now = MaxTime
    /\ \E h \in cancelled : dispatched[h] = 0

\* C9: cancel_reminder returns false whenever the task's reminder has fired
\* and has not been scheduled again since, in both modes.
C9_CancelAfterFire ==
    \A t \in Tasks :
      (/\ Len(trail[t]) >= 2
       /\ trail[t][1] = "fired"
       /\ trail[t][2] \in {"true", "false"})
        => trail[t][2] = "false"

\* C10: in in-memory mode, once shutdown() has returned the table is empty
\* and no timer armed before it can fire any more.
C10_ShutdownClearsTimers ==
    (event.op = "shutdown" /\ event.ret = "ok"
       /\ scheduler_mode = "in_memory")
      => (TableEmpty /\ timers = {})

\* C11: once shutdown() has completed no entry remains for any task, in
\* either mode: the table is empty, no timer is armed and the queue holds no
\* job the engine registered.
C11_NoEntryOutlivesShutdown ==
    (event.op = "shutdown" /\ event.ret = "ok") =>
      /\ TableEmpty
      /\ timers = {}
      /\ \A t \in Tasks : jobs[t] = NoJob

\* C13: calculate_delay_ms returns max(trigger - now, 0): exactly 0 for every
\* trigger timestamp <= now and trigger - now for every later one, so the
\* delay handed to the timer is never negative and a past-due reminder is
\* due at once.
C13_DelayNonNegative ==
    delay_calc.pc \in {"returned", "armed"} =>
      LET iso == delay_calc.reminder_time_iso
          clock == delay_calc.clock
          delay_ms == delay_calc.delay_ms
      IN /\ ~(~delay_ms.nan /\ delay_ms.val < 0)
         /\ (iso.wellformed /\ iso.ms <= clock) => delay_ms = Num(0)
         /\ (iso.wellformed /\ iso.ms > clock) =>
              delay_ms = Num(iso.ms - clock)
         /\ (iso.wellformed /\ delay_calc.pc = "armed") =>
              /\ delay_calc.armed # {}
              /\ \A tm \in delay_calc.armed :
                   tm.due = Max(iso.ms, clock)

\* a trigger time in the past was turned into a timer that is due at once
C13_Witness ==
    /\ delay_calc.pc = "armed"
    /\ delay_calc.reminder_time_iso.wellformed
    /\ delay_calc.reminder_time_iso.ms < delay_calc.clock
    /\ \E tm \in delay_calc.armed : tm.due = delay_calc.clock

\* C14: for a malformed (unparseable) trigger timestamp calculate_delay_ms
\* returns 0, so the reminder is registered with zero delay.
C14_MalformedIsZeroDelay ==
    (/\ delay_calc.pc \in {"returned", "armed"}
     /\ ~delay_calc.reminder_time_iso.wellformed)
      => delay_calc.delay_ms = Num(0)

\* text predicates: s has sub as a substring / as its end / as its start
Contains(s, sub) ==
    \E i \in 0..(Len(s) - Len(sub)) : SubSeq(s, i + 1, i + Len(sub)) = sub

EndsWith(s, suffix) ==
    /\ Len(suffix) <= Len(s)
    /\ SubSeq(s, Len(s) - Len(suffix) + 1, Len(s)) = suffix

StartsWith(s, prefix) ==
    Len(prefix) <= Len(s) /\ SubSeq(s, 1, Len(prefix)) = prefix

\* the part of a built message text between the title and ". {closing}"
DueSuffixOf(text, title, closing_phrase) ==
    SubSeq(text, 10 + Len(title) + 1, Len(text) - Len(closing_phrase) - 2)

\* the text has the shape "Reminder: {title}{middle}. {closing_phrase}"
MessageShape(text, title, closing_phrase) ==
    /\ Len(text) >= 10 + Len(title) + 2 + Len(closing_phrase)
    /\ StartsWith(text, <<"R", "e", "m", "i", "n", "d", "e", "r", ":", " ">>
                          \o title)
    /\ EndsWith(text, <<".", " ">> \o closing_phrase)
    /\ Contains(text, title)

\* C17 as stated: build_message_text returns "Reminder: {title}{due_suffix}.
\* {closing_phrase}", containing the title and ending with the closing
\* phrase, and the text contains "(due" if and only if the task has a due
\* timestamp.
C17_MessageText ==
    dispatcher.pc = "built" =>
      LET text == dispatcher.message_text
          task == dispatcher.task_payload
      IN /\ MessageShape(text, task.title, dispatcher.closing_phrase)
         /\ Contains(text, <<"(", "d", "u", "e">>)
              <=> Truthy(task.due_at_iso)

\* C17 amended: the text is "Reminder: {title}{due_suffix}. {closing}" where
\* due_suffix is " (due ...)" if the task has a due timestamp and empty if
\* not; when neither the title nor the closing phrase contains "(due", the
\* text contains "(due" if and only if the task has a due timestamp.
C17_MessageTextAmended ==
    dispatcher.pc = "built" =>
      LET text == dispatcher.message_text
          task == dispatcher.task_payload
          title == task.title
          closing == dispatcher.closing_phrase
          middle == DueSuffixOf(text, title, closing)
      IN /\ MessageShape(text, title, closing)
         /\ Truthy(task.due_at_iso) =>
              /\ StartsWith(middle, <<" ", "(", "d", "u", "e", " ">>)
              /\ EndsWith(middle, <<")">>)
              /\ Len(middle) > 7
         /\ ~Truthy(task.due_at_iso) => middle = <<>>
         /\ (/\ ~Contains(title, <<"(", "d", "u", "e">>)
             /\ ~Contains(closing, <<"(", "d", "u", "e">>))
              => (Contains(text, <<"(", "d", "u", "e">>)
                    <=> Truthy(task.due_at_iso))

\* a task without due timestamp whose title holds no "(due": no "(due" in
\* the text built for it
C17_Witness ==
    /\ dispatcher.pc = "built"
    /\ dispatcher.task_payload.due_at_iso = "undefined"
    /\ Len(dispatcher.task_payload.title) = MaxTitle
    /\ ~Contains(dispatcher.message_text, <<"(", "d", "u", "e">>)
    /\ EndsWith(dispatcher.message_text, dispatcher.closing_phrase)

\* C18: dispatch_task_reminder performs exactly one POST to
\* {base_url}/v2/bot/message/push per invocation, with to = user_id and one
\* text message equal to build_message_text(task); it resolves if and only
\* if the response status is a success, and throws otherwise, never posting
\* a second time.
C18_DispatchOnce ==
    /\ dispatcher.pc \in {"ready", "built"} => dispatcher.http_requests = <<>>
    /\ dispatcher.pc \in {"await_http", "done"} =>
         /\ Len(dispatcher.http_requests) = 1
         /\ LET request == dispatcher.http_requests[1]
                task == dispatcher.task_payload
            IN /\ request.method = "POST"
               /\ request.input =
                    dispatcher.api_base_url \o <<"/v2/bot/message/push">>
               /\ ~EndsWith(dispatcher.api_base_url, <<"/">>)
               /\ request.body.to = task.user_id
               /\ Len(request.body.messages) = 1
               /\ request.body.messages[1].type = "text"
               /\ MessageShape(request.body.messages[1].text, task.title,
                               dispatcher.closing_phrase)
               /\ dispatcher.pc = "await_http" => dispatcher.outcome = "none"
    /\ dispatcher.pc = "done" =>
         /\ dispatcher.outcome \in {"resolved", "threw"}
         /\ dispatcher.outcome = "resolved" <=>
              /\ ~dispatcher.response.rejected
              /\ dispatcher.response.status \in 200..299

\* a push answered with a non-success status: one POST, the call threw
C18_Witness ==
    /\ dispatcher.pc = "done"
    /\ dispatcher.outcome = "threw"
    /\ ~dispatcher.response.rejected
    /\ Len(dispatcher.http_requests) = 1

\* C12: in in-memory mode a scheduled reminder that is neither cancelled,
\* rescheduled nor cleared by shutdown eventually fires: every armed timer
\* eventually leaves the runtime, and it leaves only by firing when due (one
\* dispatcher invocation, with a text ending in the closing phrase), by a
\* cancel (which a reschedule starts with) or by shutdown; the dispatcher is
\* never invoked twice for one request.
C12_FiresExactlyOnce ==
    /\ [](\A h \in Handles : dispatched[h] <= 1)
    /\ [][\A tm \in timers :
            tm \notin timers' =>
              \/ /\ event'.op = "timer_callback"
                 /\ event'.task_id = tm.task_id
                 /\ tm.due <= now
                 /\ dispatched[tm.handle] = 0
                 /\ dispatched'[tm.handle] = 1
                 /\ tm.handle \notin cancelled
                 /\ \A phrase \in ClosingPhrases :
                      EndsWith(build_message_text(task_of(tm.task_id),
                                                  phrase), phrase)
              \/ /\ tm.handle \in cancelled'
                 /\ dispatched' = dispatched
              \/ /\ event'.op = "shutdown"
                 /\ dispatched' = dispatched]_vars
    /\ \A h \in Handles :
         (h \in ArmedHandles) ~> (h \notin ArmedHandles)

\* the reminder fired once its time had come, uncancelled, engine running
C12_Witness ==
    /\ scheduler_mode = "in_memory"
    /\ event.op = "timer_callback"
    /\ event.ret = "sent"
    /\ now = MaxTime
    /\ initialized
    /\ \E t \in Tasks :
         /\ active_timers[t] # 0
         /\ dispatched[active_timers[t]] = 1
         /\ active_timers[t] \notin cancelled

C16_BackendFailureRethrown ==
    [][/\ \A c \in Callers :
            (/\ calls[c].op \in {"schedule_reminder", "cancel_reminder"}
             /\ calls[c].pc \in {"getJob", "remove", "queue_add"}
             /\ calls'[c] # calls[c])
              => /\ UNCHANGED <<scheduler_mode, queue, worker, initialized,
                                active_timers, timers>>
                 /\ calls'[c].pc = "idle" =>
                      /\ event'.op = calls[c].op
                      /\ event'.task_id = calls[c].task_id
                      /\ event'.ret = "threw" => UNCHANGED EngineState
                 /\ (calls[c].pc = "queue_add" /\ jobs' = jobs
                       /\ jobs[calls[c].task_id] = NoJob)
                      => event'.ret = "threw"
       /\ (/\ initialized
           /\ scheduler_mode = "bullmq"
           /\ \A c \in Callers : calls[c].op # "initialize")
            => scheduler_mode' = "bullmq"]_vars

\* an enqueue failed on an initialized durable engine: thrown, still durable
C16_Witness ==
    /\ event.op = "schedule_reminder"
    /\ event.ret = "threw"
    /\ initialized
    /\ scheduler_mode = "bullmq"
    /\ queue = "open"
    /\ \E t \in Tasks : jobs[t] # NoJob

\* the operations the events from index i on call for, in order: a text
\* message event is saved, its reminder request built, then scheduled
RECURSIVE ExpectedLog(_, _)
ExpectedLog(events, i) ==
    IF i > Len(events) THEN <<>>
    ELSE (IF events[i] = "text"
          THEN <<<<"save_task", i>>, <<"save_task_done", i>>,
                 <<"build_reminder_request", i>>,
                 <<"schedule_reminder", i>>,
                 <<"schedule_reminder_done", i>>>>
          ELSE <<>>) \o ExpectedLog(events, i + 1)

\* the request carries the signature LINE computes for its body
ValidlySigned ==
    /\ webhook.signature_header.present
    /\ webhook.signature_header.value =
         createHmac_digest(webhook.channel_secret, webhook.request_body)

\* C19: for each text message event of a validly signed request the handler
\* runs save_task, build_reminder_request, schedule_reminder in that order,
\* each completed before the next starts, event after event in request
\* order; events without text cause neither; 200 is sent only after all
\* events have been processed.
C19_HandlerSequence ==
    webhook.pc # "none" =>
      LET expected == ExpectedLog(webhook.events, 1)
      IN /\ StartsWith(expected, webhook.log)
         /\ webhook.response = "200" =>
              /\ webhook.log = expected
              /\ ValidlySigned
              /\ webhook.threw = "none"
         /\ ~ValidlySigned =>
              /\ webhook.log = <<>>
              /\ webhook.response \in {"none", "401"}

\* a signed request of text, other, text was acknowledged after both texts
\* were saved and scheduled
C19_Witness ==
    /\ webhook.pc = "done"
    /\ ValidlySigned
    /\ webhook.response = "200"
    /\ webhook.events = <<"text", "non_text", "text">>
    /\ Len(webhook.log) = 10

\* C20: when schedule_reminder throws while an event is processed, the
\* request is never acknowledged with 200: the error goes to next(error).
C20_ScheduleFailureNotAcknowledged ==
    /\ [](webhook.pc # "none" =>
            /\ webhook.threw = "schedule_reminder" =>
                 (webhook.pc = "done" /\ webhook.response = "next_error")
            /\ webhook.response = "200" => webhook.threw = "none")
    /\ [][(webhook.pc # "none" /\ webhook.response = "next_error")
            => webhook'.response = "next_error"]_vars

\* the second text event's schedule_reminder threw after the first event
\* had been saved and scheduled
C20_Witness ==
    /\ webhook.threw = "schedule_reminder"
    /\ webhook.response = "next_error"
    /\ webhook.i = 2
    /\ Len(webhook.log) = 9

\* C30: in in-memory mode a timer that fires invokes the dispatcher and
\* removes its entry from the table: right after the reminder of a task
\* fired, the table holds no entry for that task.
C30_FiredEntryRemoved ==
    (event.op = "timer_callback" /\ scheduler_mode = "in_memory")
      => active_timers[event.task_id] = 0

\* C22: validate_line_signature returns true exactly when signature_to_compare
\* equals the base64 HMAC-SHA256 of request_body under channel_secret, and
\* returns false, never throwing, for every other signature, one of a
\* different length included.
C22_SignatureValidation ==
    signature.pc = "settled" =>
      /\ ~signature.threw
      /\ signature.is_valid <=>
           signature.signature_to_compare =
             createHmac_digest(signature.channel_secret,
                               signature.request_body)

\* a signature of the digest's string length but of another byte length was
\* answered with false
C22_Witness ==
    /\ signature.pc = "settled"
    /\ signature.signature_to_compare = <<"U+00E9", "b">>
    /\ signature.channel_secret = "K2"
    /\ signature.request_body = "B2"
    /\ ~signature.is_valid
    /\ ~signature.threw

\* C21: a webhook request whose x-line-signature header is missing or does
\* not validate is answered with 401 and changes nothing: no task is saved
\* and no reminder is scheduled for any of its events.
C21_UnsignedRequestRejected ==
    (webhook.pc # "none" /\ ~ValidlySigned) =>
      /\ webhook.log = <<>>
      /\ webhook.threw = "none"
      /\ webhook.pc \in {"received", "done"}
      /\ webhook.pc = "done" => webhook.response = "401"

\* a request of two text events signed with a wrong signature of the right
\* length was answered with 401
C21_Witness ==
    /\ webhook.pc = "done"
    /\ webhook.response = "401"
    /\ webhook.signature_header = [present |-> TRUE, value |-> <<"a", "b">>]
    /\ webhook.events = <<"text", "text">>
    /\ webhook.log = <<>>

\* C23: if reminder_scheduler.initialize() fails fatally, the bootstrap
\* aborts startup: the process exits with status 1, the HTTP server never
\* starts listening and no webhook event is ever processed.
C23_InitializeFailureAborts ==
    (bootstrap.pc # "none" /\ bootstrap.initialize_failed) =>
      /\ bootstrap.pc = "exited"
      /\ bootstrap.exit_code = "1"
      /\ ~bootstrap.listening
      /\ bootstrap.events_processed = 0
      /\ ~bootstrap.handlers_registered

\* initialize() was rejected and the process exited with status 1
C23_Witness ==
    /\ bootstrap.pc = "exited"
    /\ bootstrap.initialize_failed
    /\ bootstrap.exit_code = "1"
    /\ ~bootstrap.listening

\* C24: during process teardown the bootstrap calls
\* reminder_scheduler.shutdown() exactly once, whichever termination signals
\* (SIGINT, SIGTERM) arrive, in whatever order and however closely spaced.
C24_ShutdownCalledOnce ==
    bootstrap.pc # "none" =>
      /\ bootstrap.shutdown_calls <= 1
      /\ (bootstrap.pc = "exited" /\ bootstrap.exit_code = "0")
           => bootstrap.shutdown_calls = 1

\* the armed timer is the pending reminder of its task
Pending(tm) == tm \in timers /\ active_timers[tm.task_id] = tm.handle

\* timer tm fires in this step
Fires(tm) ==
    /\ tm \in timers
    /\ tm \notin timers'
    /\ event'.op = "timer_callback"
    /\ dispatched'[tm.handle] # dispatched[tm.handle]

\* the pending reminder with the strictly earlier trigger time
EarlierTrigger(first, second) ==
    /\ first.task_id # second.task_id
    /\ first.reminder_time.wellformed
    /\ second.reminder_time.wellformed
    /\ first.reminder_time.ms < second.reminder_time.ms

\* C25: firing order follows trigger time, not call order: in in-memory mode,
\* of two pending reminders of distinct tasks with trigger times t1 < t2 the
\* dispatcher is invoked for the first before the second, whatever the order
\* of the schedule_reminder calls.
C25_FiringOrderByTrigger ==
    [][\A second \in timers :
         (Fires(second) /\ Pending(second)) =>
           \A first \in timers :
             (Pending(first) /\ EarlierTrigger(first, second)) => FALSE]_vars

\* C25 (amended): the order follows the timers' expiry: of two pending
\* reminders of distinct tasks with trigger times t1 < t2, where t1 had not
\* passed when the first reminder was scheduled, the dispatcher is invoked
\* for the first before the second, whatever the order of the calls.
C25_FiringOrderByExpiry ==
    [][\A second \in timers :
         (Fires(second) /\ Pending(second)) =>
           \A first \in timers :
             (/\ Pending(first)
              /\ EarlierTrigger(first, second)
              /\ first.due = first.reminder_time.ms) => FALSE]_vars

\* the reminder scheduled second, with the earlier trigger, has fired while
\* the reminder scheduled first, with the later trigger, is still pending
C25_Witness ==
    /\ now = 0
    /\ event.op = "timer_callback"
    /\ event.task_id = "T2"
    /\ dispatched[2] = 1
    /\ dispatched[1] = 0
    /\ active_timers["T1"] = 1
    /\ [handle |-> 1, task_id |-> "T1", reminder_time |-> Iso(1), due |-> 1]
         \in timers

\* C26: build_reminder_request sets the trigger timestamp to the task's due
\* timestamp when the task has one, and otherwise to the time of the build
\* plus reminder_offset_minutes minutes; the task inside the request is the
\* task given.
C26_TriggerFromDueOrOffset ==
    request_build.pc = "settled" =>
      LET task == request_build.task_payload
          has_due == task.due_at_iso.defined
                       /\ task.due_at_iso.value.wellformed
          has_no_due == ~task.due_at_iso.defined
          result == request_build.result
      IN /\ (task.fields_valid /\ (has_due \/ has_no_due)) => ~result.threw
         /\ ~result.threw =>
              /\ result.task = task
              /\ has_due \/ has_no_due
              /\ has_due =>
                   result.reminder_time_iso = task.due_at_iso.value
              /\ has_no_due =>
                   /\ result.reminder_time_iso.wellformed
                   /\ result.reminder_time_iso.ms =
                        request_build.clock
                          + request_build.reminder_offset_minutes * 60000

\* a request for a task without due timestamp was built at time 3 with an
\* offset of 2 minutes
C26_Witness ==
    /\ request_build.pc = "settled"
    /\ ~request_build.task_payload.due_at_iso.defined
    /\ request_build.clock = 3
    /\ request_build.reminder_offset_minutes = 2
    /\ ~request_build.result.threw
    /\ request_build.result.reminder_time_iso = Iso(120003)

\* the tasks find_tasks_by_user(user_id) has to return: the most recently
\* saved value of every task_id, where that value belongs to the user
LatestOf(user_id) ==
    {repository.latest[t].task :
       t \in {id \in Tasks : /\ repository.latest[id].saved
                             /\ repository.latest[id].task.user_id = user_id}}

\* C27: after any sequence of save_task calls, find_tasks_by_user(u) returns
\* exactly the stored tasks whose user_id is u, one per task_id, holding the
\* most recently saved value of that task_id, ordered by non-decreasing due
\* time.
C27_FindByUser ==
    (/\ repository.pc # "none"
     /\ repository.last.op = "find_tasks_by_user"
     /\ repository.last.outcome = "resolved") =>
      LET tasks == repository.last.result.tasks
          expected == LatestOf(repository.last.result.user_id)
      IN /\ {tasks[i] : i \in 1..Len(tasks)} = expected
         /\ Len(tasks) = Cardinality(expected)
         /\ \A i, j \in 1..Len(tasks) :
              (/\ i < j
               /\ tasks[i].due_at_iso.defined
               /\ tasks[j].due_at_iso.defined) =>
                Date_parse(tasks[i].due_at_iso.text)
                  <= Date_parse(tasks[j].due_at_iso.text)

\* C28: when the MongoDB connection fails and enable_offline_fallback is
\* true, connect() resolves with repository_mode = memory, is_connected =
\* true, no client held and an empty in-memory store; when the fallback is
\* disabled, connect() rejects and the repository stays in mongo mode and
\* not connected.
C28_ConnectFallback ==
    (/\ repository.pc # "none"
     /\ repository.last.op = "connect"
     /\ repository.last.mongo_failed) =>
      IF repository.enable_offline_fallback
      THEN /\ repository.last.outcome = "resolved"
           /\ repository.repository_mode = "memory"
           /\ repository.is_connected
           /\ repository.client = "undefined"
           /\ repository.in_memory_store = <<>>
      ELSE /\ repository.last.outcome = "rejected"
           /\ repository.repository_mode = "mongo"
           /\ ~repository.is_connected
           /\ repository.client = "MongoClient"

\* a repository that had saved a task to MongoDB and disconnected fell back
\* to memory mode when connecting again failed
C28_Witness ==
    /\ repository.last.op = "connect"
    /\ repository.last.mongo_failed
    /\ repository.last.outcome = "resolved"
    /\ repository.repository_mode = "memory"
    /\ repository.documents # <<>>
    /\ repository.in_memory_store = <<>>

\* the calls made on the ngrok module by the present call of the handle's
\* disconnect()
CallsOfDisconnect ==
    SubSeq(ngrok.module_calls, ngrok.first_call, Len(ngrok.module_calls))

DisconnectCall == <<"disconnect", ngrok.public_url>>

KillCall == <<"kill", "none">>

\* establish_ngrok_tunnel returned undefined without calling connect
UnavailableSkipsConnect ==
    (ngrok.pc # "none" /\ ngrok.result = "undefined")
      => (ngrok.module_calls = <<>> /\ ngrok.handle = "none")

\* C29: the disconnect() of an ngrok tunnel handle calls the module's
\* disconnect(public_url) and then kill(), each exactly once and in that
\* order; when the ngrok module is unavailable establish_ngrok_tunnel returns
\* undefined without calling connect.
C29_DisconnectThenKill ==
    /\ (ngrok.pc # "none" /\ ngrok.handle \in {"resolved", "rejected"})
         => CallsOfDisconnect = <<DisconnectCall, KillCall>>
    /\ UnavailableSkipsConnect

\* C29 (amended): disconnect() calls the module's disconnect(public_url)
\* once and, after that has resolved, kill() once: both, in that order, when
\* disconnect() resolves; when the module's disconnect rejects, disconnect()
\* rejects without calling kill(). An unavailable module gives undefined
\* without connect being called.
C29_DisconnectThenKillIfResolved ==
    /\ ngrok.pc # "none" =>
         /\ ngrok.handle = "await_disconnect"
              => CallsOfDisconnect = <<DisconnectCall>>
         /\ ngrok.handle \in {"await_kill", "resolved"}
              => CallsOfDisconnect = <<DisconnectCall, KillCall>>
         /\ ngrok.handle = "rejected"
              => CallsOfDisconnect \in {<<DisconnectCall>>,
                                        <<DisconnectCall, KillCall>>}
    /\ UnavailableSkipsConnect

\* a second disconnect() of the handle resolved after the first had been
\* rejected by the module's disconnect
C29_Witness ==
    /\ ngrok.handle = "resolved"
    /\ ngrok.handle_calls = 2
    /\ ngrok.public_url = "https://b.ngrok.dev"
    /\ Len(ngrok.module_calls) = 4
    /\ CallsOfDisconnect = <<DisconnectCall, KillCall>>

\* C37: the engine holds armed in-process timers only while it is
\* initialized: a non-empty active_timers table implies initialized = TRUE,
\* so a schedule_reminder made before initialize() or after shutdown() arms
\* no timer.
C37_TimersOnlyWhileInitialized == ~TableEmpty => initialized

\* C39: save_task and find_tasks_by_user fail with a 'Repository not
\* connected' error and change nothing whenever the repository is not
\* connected (before connect() or after disconnect()), in memory mode as
\* well as in mongo mode.
C39_NotConnectedRejects ==
    [][(/\ repository.pc # "none"
        /\ ~repository.is_connected
        /\ repository' # repository
        /\ repository'.last.op \in {"save_task", "find_tasks_by_user"}) =>
         (/\ repository'.last.outcome = "rejected"
          /\ ~repository'.last.mongo_failed
          /\ repository' = [repository EXCEPT !.last = repository'.last])
      ]_vars

\* what the handler had done for event k when operation op of it failed
AttemptOf(op, k) ==
    IF op = "save_task" THEN <<<<"save_task", k>>>>
    ELSE IF op = "build_reminder_request"
    THEN <<<<"save_task", k>>, <<"save_task_done", k>>,
           <<"build_reminder_request", k>>>>
    ELSE IF op = "schedule_reminder"
    THEN <<<<"save_task", k>>, <<"save_task_done", k>>,
           <<"build_reminder_request", k>>, <<"schedule_reminder", k>>>>
    ELSE <<>>

\* C38: webhook processing has no rollback: when handling of event k fails,
\* the tasks saved and reminders scheduled for the events before k remain,
\* the task of event k stays saved when save_task had succeeded (with no
\* reminder scheduled for it), and the events after k are not processed.
C38_NoRollback ==
    /\ []((webhook.pc # "none" /\ webhook.threw # "none") =>
            LET k == webhook.i
            IN /\ webhook.pc = "done"
               /\ webhook.response = "next_error"
               /\ webhook.log =
                    ExpectedLog(SubSeq(webhook.events, 1, k - 1), 1)
                      \o AttemptOf(webhook.threw, k))
    /\ [][(webhook.pc # "none" /\ webhook.threw # "none")
            => webhook' = webhook]_vars

\* build_reminder_request threw for the second of three text events: the
\* first is saved and scheduled, the second saved only, the third untouched
C38_Witness ==
    /\ webhook.threw = "build_reminder_request"
    /\ webhook.events = <<"text", "text", "text">>
    /\ webhook.i = 2
    /\ webhook.log =
         <<<<"save_task", 1>>, <<"save_task_done", 1>>,
           <<"build_reminder_request", 1>>, <<"schedule_reminder", 1>>,
           <<"schedule_reminder_done", 1>>, <<"save_task", 2>>,
           <<"save_task_done", 2>>, <<"build_reminder_request", 2>>>>

\* C36: a reminder never fires early: the dispatcher is never invoked for a
\* scheduled reminder before its trigger timestamp; the delay armed for a
\* trigger time later than now is at least trigger - now at the moment of
\* scheduling.
C36_NeverFiresEarly ==
    [][/\ \A tm \in timers \ timers' :
            (dispatched' # dispatched /\ tm.reminder_time.wellformed)
              => tm.reminder_time.ms <= now
       /\ \A t \in Tasks :
            (/\ jobs[t].state = "delayed"
             /\ jobs'[t].state = "active"
             /\ jobs[t].reminder_time.wellformed)
              => jobs[t].reminder_time.ms <= now
       /\ \A tm \in timers' \ timers :
            (tm.reminder_time.wellformed /\ tm.reminder_time.ms > now)
              => tm.due - now >= tm.reminder_time.ms - now
       /\ \A c \in Callers :
            (/\ calls[c].pc # "queue_add"
             /\ calls'[c].pc = "queue_add"
             /\ calls'[c].reminder_time.wellformed
             /\ calls'[c].reminder_time.ms > now)
              => /\ ~calls'[c].delay_ms.nan
                 /\ calls'[c].delay_ms.val
                      >= calls'[c].reminder_time.ms - now
      ]_vars

\* a job enqueued for a trigger time later than the clock at its scheduling
\* was taken by the worker once the clock had reached the trigger time
C36_Witness ==
    \E t \in Tasks :
      /\ jobs[t].state = "active"
      /\ jobs[t].reminder_time = Iso(MaxTime)
      /\ jobs[t].due = MaxTime
      /\ dispatched[jobs[t].rid] = 1
      /\ now = MaxTime

\* C35: in durable mode the job of a reminder is enqueued under the task
\* identifier and is removed when its processing completes or fails: right
\* after a job was processed no job with that task identifier remains, and
\* a schedule_reminder for the task that returns after the fire has
\* registered a new, unprocessed job under the same identifier (which is
\* there as long as no further call is in progress).
C35_JobRemovedAfterProcessing ==
    /\ (event.op = "worker" /\ event.ret \in {"completed", "failed"})
         => jobs[event.task_id] = NoJob
    /\ \A t \in Tasks :
         (/\ scheduler_mode = "bullmq"
          /\ trail[t] = <<"fired", "ok">>
          /\ \A c \in Callers : calls[c].pc = "idle") =>
           /\ jobs[t].state = "delayed"
           /\ dispatched[jobs[t].rid] = 0

\* the job of T1 was processed and failed, and the next schedule_reminder
\* for T1 enqueued a second job under the same identifier
C35_Witness ==
    /\ scheduler_mode = "bullmq"
    /\ trail["T1"] = <<"fired", "ok">>
    /\ jobs["T1"].state = "delayed"
    /\ jobs["T1"].rid = 2
    /\ dispatched[1] = 1
    /\ event = [op |-> "schedule_reminder", task_id |-> "T1", ret |-> "ok"]

\* the entry of task t: its slot in the timer table, its armed timers with
\* their trigger times, and the job held under its identifier
EntryOf(t) == <<active_timers[t], ArmedFor(t), jobs[t]>>

\* this step belongs to a schedule_reminder or cancel_reminder call for
\* task a, or is the firing of a reminder of task a
StepFor(a) ==
    \/ \E c \in Callers :
         /\ calls[c].op \in {"schedule_reminder", "cancel_reminder"}
         /\ calls[c].task_id = a
         /\ calls'[c] # calls[c]
    \/ \E c \in Callers :
         /\ calls[c].pc = "idle"
         /\ calls'[c].op \in {"schedule_reminder", "cancel_reminder"}
         /\ calls'[c].task_id = a
    \/ /\ event'.op \in {"schedule_reminder", "cancel_reminder",
                         "timer_callback", "worker"}
       /\ event'.task_id = a

\* C34: task identifiers are independent: every step of schedule_reminder or
\* cancel_reminder for a task A, and the firing of a reminder of A, leaves
\* the entry of every other task B (presence, trigger time, payload) as it
\* was.
C34_TasksIndependent ==
    [][\A a \in Tasks :
         StepFor(a) =>
           \A b \in Tasks \ {a} : EntryOf(b)' = EntryOf(b)]_vars

\* the reminder of T1 was cancelled while T2 held an armed timer
C34_Witness ==
    /\ event = [op |-> "cancel_reminder", task_id |-> "T1", ret |-> "true"]
    /\ scheduler_mode = "in_memory"
    /\ active_timers["T1"] = 0
    /\ active_timers["T2"] # 0
    /\ ArmedFor("T2") # {}

\* C33: the handles the engine holds are of the kind of its current mode,
\* never of both: in durable mode the in-process timer table is empty (and
\* no timer is armed), in in-memory mode neither a queue nor a worker is
\* held, and after a fallback no queue or worker handle survives.
C33_HandlesMatchMode ==
    /\ scheduler_mode = "bullmq" => (TableEmpty /\ timers = {})
    /\ scheduler_mode = "in_memory" =>
         (queue = "undefined" /\ worker = "undefined")
    /\ event.ret = "fallback" =>
         /\ scheduler_mode = "in_memory"
         /\ queue = "undefined"
         /\ worker = "undefined"

\* an engine built in durable mode fell back in initialize() and then armed
\* a timer: it holds a timer handle and neither queue nor worker
C33_Witness ==
    /\ ~dependencies.force_in_memory_mode
    /\ scheduler_mode = "in_memory"
    /\ initialized
    /\ active_timers["T1"] # 0
    /\ ArmedFor("T1") # {}
    /\ queue = "undefined"
    /\ worker = "undefined"
    /\ \A c \in Callers : calls[c].pc = "idle"

\* C32: a failed schedule_reminder leaves the task's reminder as it was:
\* when schedule_reminder(r2) throws, a reminder r1 of the same task that
\* was pending before the call (the last call for the task returned from a
\* successful schedule_reminder and r1 has not fired since) is still
\* pending afterwards.
C32_FailedScheduleKeepsReminder ==
    [][\A c \in Callers, t \in Tasks :
            (/\ calls[c].op = "schedule_reminder"
             /\ calls[c].task_id = t
             /\ calls'[c].pc = "idle"
             /\ event'.op = "schedule_reminder"
             /\ event'.ret = "threw"
             /\ serialized
             /\ trail[t] # <<>>
             /\ trail[t][Len(trail[t])] = "ok")
              => IF scheduler_mode' = "in_memory"
                 THEN active_timers'[t] # 0 /\ ArmedFor(t)' # {}
                 ELSE jobs'[t].state = "delayed"]_vars

\* the request whose entry task t holds in the current mode (0: none)
PendingRid(t) ==
    IF scheduler_mode = "in_memory" THEN active_timers[t] ELSE jobs[t].rid

\* two schedule_reminder calls for t returned one after the other with no
\* cancel_reminder and no fire of t in between or since, and no further
\* call is in progress
Rescheduled(t) ==
    /\ serialized
    /\ \A c \in Callers : calls[c].pc = "idle"
    /\ Len(trail[t]) >= 2
    /\ trail[t][Len(trail[t])] = "ok"
    /\ trail[t][Len(trail[t]) - 1] = "ok"

\* C31: rescheduling supersedes: after schedule_reminder(r1) followed by
\* schedule_reminder(r2) for the same task while r1 has not fired, r2's
\* entry is the only one of the task and carries r2's trigger time; the
\* cancel step of r2 removes r1's entry, a removed reminder that had not
\* fired never reaches the dispatcher, and what fires for the task is r2,
\* not before r2's trigger time.
C31_RescheduleSupersedes ==
    /\ [](\A t \in Tasks :
            Rescheduled(t) =>
              /\ ExactlyOneEntry(t)
              /\ dispatched[PendingRid(t)] = 0)
    /\ [][/\ \A h \in Handles :
               (h \in cancelled /\ dispatched[h] = 0) => dispatched'[h] = 0
          /\ \A c \in Callers, t \in Tasks :
               (/\ calls'[c].op = "schedule_reminder"
                /\ calls'[c].task_id = t
                /\ calls'[c].pc = "after_cancel"
                /\ calls[c].pc # "after_cancel")
                 => /\ PendingRid(t)' = 0
                    /\ ArmedFor(t)' = {}
                    /\ PendingRid(t) # 0 => PendingRid(t) \in cancelled'
          /\ \A c \in Callers, t \in Tasks :
                  (/\ calls[c].op = "schedule_reminder"
                   /\ calls[c].task_id = t
                   /\ calls'[c].pc = "idle"
                   /\ event'.ret = "ok"
                   /\ serialized)
                    => /\ PendingRid(t)' = calls[c].rid
                       /\ IF scheduler_mode' = "in_memory"
                          THEN ArmedFor(t)' =
                                 {[handle |-> calls[c].rid,
                                   task_id |-> t,
                                   reminder_time |-> calls[c].reminder_time,
                                   due |-> now + EffectiveDelay(
                                     calculate_delay_ms(
                                       calls[c].reminder_time, now))]}
                          ELSE jobs'[t].reminder_time
                                 = calls[c].reminder_time
          /\ \A t \in Tasks, h \in Handles :
               (Rescheduled(t) /\ dispatched'[h] # dispatched[h]
                  /\ event'.task_id = t)
                 => /\ h = PendingRid(t)
                    /\ IF scheduler_mode = "in_memory"
                       THEN \A tm \in ArmedFor(t) :
                              tm.reminder_time.wellformed
                                => tm.reminder_time.ms <= now
                       ELSE jobs[t].reminder_time.wellformed
                              => jobs[t].reminder_time.ms <= now
         ]_vars

\* T1 was scheduled twice in a row: the first request is cancelled and has
\* not been dispatched, the second is the pending one, due at its trigger
C31_Witness ==
    /\ Rescheduled("T1")
    /\ trail["T1"] = <<"ok", "ok">>
    /\ cancelled = {1}
    /\ dispatched[1] = 0
    /\ PendingRid("T1") = 2
    /\ now = 0
    /\ IF scheduler_mode = "in_memory"
       THEN \E tm \in ArmedFor("T1") :
              tm.reminder_time = Iso(MaxTime) /\ tm.due = MaxTime
       ELSE jobs["T1"].reminder_time = Iso(MaxTime)
              /\ jobs["T1"].due = MaxTime

\* C40: built with enable_offline_fallback = false and force_in_memory_mode
\* unset on a healthy backend, the fallback-capable ReminderScheduler and
\* the BullMQ-only ReminderScheduler are observationally equivalent: in
\* every call of every sequence of initialize, schedule_reminder,
\* cancel_reminder and shutdown calls they issue the same queue/worker
\* operation next, or return the same result or error.
C40_ObservationallyEquivalent ==
    schedulers.pc # "none" =>
      /\ schedulers.pc = "running" => Agree(FallbackNext, BullMQNext)
      /\ schedulers.returned.fallback = schedulers.returned.bullmq
      /\ schedulers.fallback.initialized = schedulers.bullmq.initialized
      /\ schedulers.fallback.scheduler_mode = "bullmq"

\* after initialize and a schedule_reminder, a second schedule_reminder for
\* the same task threw in both classes: its job.remove() hit the job the
\* worker was processing
C40_Witness ==
    /\ schedulers.pc = "idle"
    /\ schedulers.calls = MaxSchedulerCalls
    /\ schedulers.call.op = "schedule_reminder"
    /\ schedulers.seen = <<"job", "threw">>
    /\ schedulers.returned = [fallback |-> "threw", bullmq |-> "threw"]
    /\ schedulers.fallback.initialized
    /\ schedulers.backend.jobs[schedulers.call.task_id].state = "active"

====
